---- MODULE Spec2Model ----
(***************************************************************************)
(* A model of my-custom-asm-vm: the instruction codec (instruction.rs),    *)
(* the program builder (program.rs) and the interpreter (lib.rs).          *)
(*                                                                         *)
(* VmPtr is u32.  TLC's integers are 32-bit signed, so a VmPtr is kept as  *)
(* a pair <<hi, lo>> of 16-bit limbs: its value is hi * 2^16 + lo, and     *)
(* every operation on it is computed modulo 2^32 as the code computes it.  *)
(***************************************************************************)
EXTENDS Integers, Sequences, FiniteSets, TLC

\* ------------------------------------------------------------------ bounds
\* Longest Data payload drawn as an input.
MaxData == 2
\* Most instructions a Program is built up to.
MaxInstrs == 3
\* Longest generated stack program, in instructions.
MaxSeq == 3
\* Most step() calls made on one Machine.
MaxSteps == 20
\* The longest generated source, in lines.
MaxLines == 3
\* Most step() calls of the run of an example's main().
MaxRunSteps == 12000

\* ------------------------------------------------------- results (anyhow)
Ok(v) == [ok |-> TRUE, v |-> v]
Err(e) == [ok |-> FALSE, err |-> e]
\* A Rust panic (a failed assert_eq!): the call does not return.
Panic(e) == [ok |-> FALSE, err |-> e, panic |-> TRUE]
IsPanic(r) == ~r.ok /\ "panic" \in DOMAIN r

\* ------------------------------------------------------------------ VmPtr
Limb == 256 * 256
Byte == 0..255
VmPtr == (0..(Limb - 1)) \X (0..(Limb - 1))
\* The VmPtr of a small natural number (n < 2^31).
W(n) == <<n \div Limb, n % Limb>>
VmPtrMAX == <<Limb - 1, Limb - 1>>
PtrSize == 4

to_be_bytes(w) == <<w[1] \div 256, w[1] % 256, w[2] \div 256, w[2] % 256>>
from_be_bytes(b) == <<b[1] * 256 + b[2], b[3] * 256 + b[4]>>

wrapping_add(a, b) ==
  LET lo == a[2] + b[2]
      hi == a[1] + b[1] + (lo \div Limb)
  IN  <<hi % Limb, lo % Limb>>

\* A subtraction that stops at 0.
wrapping_sub_saturating(a, b) ==
  IF a[1] < b[1] \/ (a[1] = b[1] /\ a[2] < b[2]) THEN <<0, 0>>
  ELSE LET lo == a[2] - b[2]
           borrow == IF lo < 0 THEN 1 ELSE 0
       IN  <<(a[1] - b[1] - borrow) % Limb, lo % Limb>>

wrapping_sub(a, b) ==
  LET lo == a[2] - b[2]
      borrow == IF lo < 0 THEN 1 ELSE 0
      hi == a[1] - b[1] - borrow
  IN  <<hi % Limb, lo % Limb>>

\* Ordering of two VmPtr values, as u32::cmp.
cmp(a, b) ==
  IF a[1] < b[1] THEN "Less"
  ELSE IF a[1] > b[1] THEN "Greater"
  ELSE IF a[2] < b[2] THEN "Less"
  ELSE IF a[2] > b[2] THEN "Greater"
  ELSE "Equal"

checked_sub(a, b) == IF cmp(a, b) = "Less" THEN Err("overflow") ELSE Ok(wrapping_sub(a, b))

checked_add(a, b) ==
  LET lo == a[2] + b[2]
      hi == a[1] + b[1] + (lo \div Limb)
  IN  IF hi >= Limb THEN Err("overflow") ELSE Ok(<<hi, lo % Limb>>)

\* usize of a VmPtr.  Every buffer of the model is shorter than 2^16 bytes, so
\* the only values ever turned into a sequence index have hi = 0.
native_ptr(ptr) == ptr[1] * Limb + ptr[2]
\* VmPtr of a usize (a length or a size; the conversion panics above u32::MAX,
\* which no length of the model reaches).
vm_ptr(n) == W(n)

\* slice.get(ptr..): the tail from ptr, None when ptr > len.
GetFrom(buf, ptr) ==
  IF cmp(ptr, W(Len(buf))) = "Greater" THEN Err("none")
  ELSE Ok(SubSeq(buf, native_ptr(ptr) + 1, Len(buf)))

\* slice.get(n..) for a native index.
GetFromN(buf, n) == IF n > Len(buf) THEN Err("none") ELSE Ok(SubSeq(buf, n + 1, Len(buf)))

\* ------------------------------------------------------------ util.rs reads
read_u8(bytes) ==
  IF Len(bytes) < 1 THEN Err("Out of memory access occurred at the border")
  ELSE Ok(bytes[1])

read_u16(bytes) ==
  IF Len(bytes) < 2 THEN Err("Out of memory access occurred at the border")
  ELSE Ok(bytes[1] * 256 + bytes[2])

read_u32(bytes) ==
  IF Len(bytes) < 4 THEN Err("Out of memory access occurred at the border")
  ELSE Ok(from_be_bytes(SubSeq(bytes, 1, 4)))

read_vm_ptr(bytes) == read_u32(bytes)

\* A read_bytes that hands out the bytes there are.
read_bytes_available(buffer, len) ==
  IF cmp(len, W(Len(buffer))) = "Greater" THEN Ok(buffer)
  ELSE Ok(SubSeq(buffer, 1, native_ptr(len)))

read_bytes(buffer, len) ==
  IF cmp(len, W(Len(buffer))) = "Greater" THEN Err("Out of memory access occurred at the border")
  ELSE Ok(SubSeq(buffer, 1, native_ptr(len)))

\* --------------------------------------------------------- instruction.rs
\* Instruction values: a record with the variant's name and its operands.
Nullary(op) == [op |-> op]
WithPtr(op, ptr) == [op |-> op, ptr |-> ptr]
WithReg(op, reg) == [op |-> op, reg |-> reg]
CopyCodeMemory(source, count) ==
  [op |-> "CopyCodeMemory", source |-> source, size |-> count]
Data(len, data) == [op |-> "Data", len |-> len, data |-> data]
SetRegister(reg, value) == [op |-> "SetRegister", reg |-> reg, value |-> value]

\* size() with the SetRegister arm counting one operand byte too few.
size_short_set_register(i) ==
  IF i.op = "SetRegister" THEN Ok(1 + PtrSize)
  ELSE IF i.op = "Data"
       THEN IF W(Len(i.data)) # i.len THEN Panic("assert_eq!(data.len(), native_ptr(len))")
            ELSE Ok(1 + PtrSize + Len(i.data))
       ELSE IF i.op \in {"Nop", "Halt", "ReadStackPointer", "WriteStackPointer", "Return",
                         "Increment", "Decrement", "Push", "Pop"} THEN Ok(1)
       ELSE IF i.op = "CopyCodeMemory" THEN Ok(1 + 2 * PtrSize)
       ELSE IF "ptr" \in DOMAIN i THEN Ok(1 + PtrSize) ELSE Ok(2)

\* Instruction::size, one arm per group of variants with the same expression.
size(i) ==
  CASE i.op \in
        {"Nop", "Halt", "ReadStackPointer", "WriteStackPointer", "Return",
         "Increment", "Decrement", "Push", "Pop"}
       -> Ok(1)
    [] i.op \in
        {"Load8", "Store8", "Load16", "Store16", "Load32", "Store32", "Set",
         "Jump", "Call", "JumpEqual", "JumpNotEqual", "JumpGreater", "JumpLess",
         "JumpGreaterEqual", "JumpLessEqual", "JumpZero", "JumpNonzero"}
       -> Ok(1 + PtrSize)
    [] i.op \in
        {"Deref8", "Deref16", "Deref32", "Syscall", "Swap", "Write8", "Write16",
         "Write32", "Add", "Sub", "Compare", "PushRegister", "PopRegister", "Mul",
         "Div", "IncrementRegister", "DecrementRegister"}
       -> Ok(2)
    [] i.op \in
        {"CopyCodeMemory"}
       -> Ok(1 + 2 * PtrSize)
    [] i.op \in
        {"SetRegister"}
       -> Ok(2 + PtrSize)
    [] i.op = "Data" ->
       IF W(Len(i.data)) # i.len THEN Panic("assert_eq!(data.len(), native_ptr(len))")
       ELSE Ok(1 + PtrSize + Len(i.data))

\* The match arms of Instruction::parse, in opcode order: the variant each
\* opcode builds and the operands it reads.
ParseTable == <<
  <<"Nop", "none">>,  \* 0
  <<"Halt", "none">>,  \* 1
  <<"Load8", "ptr">>,  \* 2
  <<"Store8", "ptr">>,  \* 3
  <<"Load16", "ptr">>,  \* 4
  <<"Store16", "ptr">>,  \* 5
  <<"Load32", "ptr">>,  \* 6
  <<"Store32", "ptr">>,  \* 7
  <<"Set", "ptr">>,  \* 8
  <<"Deref8", "reg">>,  \* 9
  <<"Deref16", "reg">>,  \* 10
  <<"Deref32", "reg">>,  \* 11
  <<"Syscall", "reg">>,  \* 12
  <<"CopyCodeMemory", "ptr_ptr">>,  \* 13
  <<"Data", "data">>,  \* 14
  <<"Swap", "reg">>,  \* 15
  <<"Write8", "reg">>,  \* 16
  <<"Write16", "reg">>,  \* 17
  <<"Write32", "reg">>,  \* 18
  <<"ReadStackPointer", "none">>,  \* 19
  <<"WriteStackPointer", "none">>,  \* 20
  <<"Jump", "ptr">>,  \* 21
  <<"Call", "ptr">>,  \* 22
  <<"Return", "none">>,  \* 23
  <<"Increment", "none">>,  \* 24
  <<"Decrement", "none">>,  \* 25
  <<"Add", "reg">>,  \* 26
  <<"Sub", "reg">>,  \* 27
  <<"Compare", "reg">>,  \* 28
  <<"JumpEqual", "ptr">>,  \* 29
  <<"JumpNotEqual", "ptr">>,  \* 30
  <<"JumpGreater", "ptr">>,  \* 31
  <<"JumpLess", "ptr">>,  \* 32
  <<"JumpGreaterEqual", "ptr">>,  \* 33
  <<"JumpLessEqual", "ptr">>,  \* 34
  <<"JumpZero", "ptr">>,  \* 35
  <<"JumpNonzero", "ptr">>,  \* 36
  <<"Push", "none">>,  \* 37
  <<"Pop", "none">>,  \* 38
  <<"PushRegister", "reg">>,  \* 39
  <<"PopRegister", "reg">>,  \* 40
  <<"Mul", "reg">>,  \* 41
  <<"Div", "reg">>,  \* 42
  <<"IncrementRegister", "reg">>,  \* 43
  <<"DecrementRegister", "reg">>,  \* 44
  <<"SetRegister", "reg_ptr">>   \* 45
>>

\* code.get(index..).context("not enough bytes")
code_sub_slice(code, index) ==
  LET s == GetFromN(code, index) IN IF s.ok THEN s ELSE Err("not enough bytes")

\* Instruction::parse: the first instruction of the byte buffer.
parse(code) ==
  IF Len(code) = 0 THEN Err("Cannot parse instruction from empty code")
  ELSE IF code[1] + 1 > Len(ParseTable) THEN Err("Unrecognized instruction")
  ELSE
    LET arm == ParseTable[code[1] + 1]
        op == arm[1]
        lay == arm[2]
        s1 == code_sub_slice(code, 1)
        s2 == code_sub_slice(code, 2)
        s5 == code_sub_slice(code, 5)
    IN  CASE lay = "none" -> Ok(Nullary(op))
          [] lay = "ptr" ->
             IF ~s1.ok THEN s1
             ELSE LET p == read_vm_ptr(s1.v) IN
                  IF ~p.ok THEN p ELSE Ok(WithPtr(op, p.v))
          [] lay = "reg" ->
             IF ~s1.ok THEN s1
             ELSE LET r == read_u8(s1.v) IN
                  IF ~r.ok THEN r ELSE Ok(WithReg(op, r.v))
          [] lay = "ptr_ptr" ->
             IF ~s1.ok THEN s1
             ELSE LET p == read_vm_ptr(s1.v) IN
                  IF ~p.ok THEN p
                  ELSE IF ~s5.ok THEN s5
                  ELSE LET q == read_vm_ptr(s5.v) IN
                       IF ~q.ok THEN q ELSE Ok(CopyCodeMemory(p.v, q.v))
          [] lay = "data" ->
             IF ~s1.ok THEN s1
             ELSE LET len == read_vm_ptr(s1.v) IN
                  IF ~len.ok THEN len
                  ELSE IF ~s5.ok THEN s5
                  ELSE LET d == read_bytes(s5.v, len.v) IN
                       IF ~d.ok THEN d ELSE Ok(Data(len.v, d.v))
          [] lay = "reg_ptr" ->
             IF ~s1.ok THEN s1
             ELSE LET r == read_u8(s1.v) IN
                  IF ~r.ok THEN r
                  ELSE IF ~s2.ok THEN s2
                  ELSE LET p == read_vm_ptr(s2.v) IN
                       IF ~p.ok THEN p ELSE Ok(SetRegister(r.v, p.v))

\* The opcode byte each arm of Instruction::bytes pushes first.
BytesOpcode(op) ==
  CASE op = "Nop" -> 0
    [] op = "Halt" -> 1
    [] op = "Load8" -> 2
    [] op = "Store8" -> 3
    [] op = "Load16" -> 4
    [] op = "Store16" -> 5
    [] op = "Load32" -> 6
    [] op = "Store32" -> 7
    [] op = "Set" -> 8
    [] op = "Deref8" -> 9
    [] op = "Deref16" -> 10
    [] op = "Deref32" -> 11
    [] op = "Syscall" -> 12
    [] op = "CopyCodeMemory" -> 13
    [] op = "Data" -> 14
    [] op = "Swap" -> 15
    [] op = "Write8" -> 16
    [] op = "Write16" -> 17
    [] op = "Write32" -> 18
    [] op = "ReadStackPointer" -> 19
    [] op = "WriteStackPointer" -> 20
    [] op = "Jump" -> 21
    [] op = "Call" -> 22
    [] op = "Return" -> 23
    [] op = "Increment" -> 24
    [] op = "Decrement" -> 25
    [] op = "Add" -> 26
    [] op = "Sub" -> 27
    [] op = "Compare" -> 28
    [] op = "JumpEqual" -> 29
    [] op = "JumpNotEqual" -> 30
    [] op = "JumpGreater" -> 31
    [] op = "JumpLess" -> 32
    [] op = "JumpGreaterEqual" -> 33
    [] op = "JumpLessEqual" -> 34
    [] op = "JumpZero" -> 35
    [] op = "JumpNonzero" -> 36
    [] op = "Push" -> 37
    [] op = "Pop" -> 38
    [] op = "PushRegister" -> 39
    [] op = "PopRegister" -> 40
    [] op = "Mul" -> 41
    [] op = "Div" -> 42
    [] op = "IncrementRegister" -> 43
    [] op = "DecrementRegister" -> 44
    [] op = "SetRegister" -> 45

\* Instruction::bytes: the opcode byte, then the operands each arm appends.
\* Vec::with_capacity(self.size()) runs size() first, and with it its assertion.
bytes(i) ==
  IF ~size(i).ok THEN size(i)
  ELSE
  CASE i.op \in
       {"Nop", "Halt", "ReadStackPointer", "WriteStackPointer", "Return",
        "Increment", "Decrement", "Push", "Pop"}
       -> Ok(<<BytesOpcode(i.op)>>)
    [] i.op \in
       {"Load8", "Store8", "Load16", "Store16", "Load32", "Store32", "Set",
        "Jump", "Call", "JumpEqual", "JumpNotEqual", "JumpGreater", "JumpLess",
        "JumpGreaterEqual", "JumpLessEqual", "JumpZero", "JumpNonzero"}
       -> Ok(<<BytesOpcode(i.op)>> \o to_be_bytes(i.ptr))
    [] i.op \in
       {"Deref8", "Deref16", "Deref32", "Syscall", "Swap", "Write8", "Write16",
        "Write32", "Add", "Sub", "Compare", "PushRegister", "PopRegister",
        "Mul", "Div", "IncrementRegister", "DecrementRegister"}
       -> Ok(<<BytesOpcode(i.op), i.reg>>)
    [] i.op = "CopyCodeMemory"
       -> Ok(<<BytesOpcode(i.op)>> \o to_be_bytes(i.source) \o to_be_bytes(i.size))
    [] i.op = "Data"
       -> IF W(Len(i.data)) # i.len THEN Panic("assert_eq!(data.len(), native_ptr(len))")
          ELSE Ok(<<BytesOpcode(i.op)>> \o to_be_bytes(i.len) \o i.data)
    [] i.op = "SetRegister"
       -> Ok(<<BytesOpcode(i.op), i.reg>> \o to_be_bytes(i.value))

\* -------------------------------------------------------------- program.rs
\* A Program is its `instructions` vector: a sequence of Instruction values.
\* Every builder operation is a function of the Program and its arguments; a
\* successful one yields the new Program as `p` beside its return value `v`.
Done(p, v) == [ok |-> TRUE, v |-> v, p |-> p]

\* Program::compile: the instructions' bytes, concatenated in order.
\* A compile that emits the instructions last to first.
RECURSIVE compile_reversed(_)
compile_reversed(p) ==
  IF p = <<>> THEN <<>> ELSE compile_reversed(Tail(p)) \o bytes(Head(p)).v

RECURSIVE compile(_)
compile(p) ==
  IF p = <<>> THEN <<>>
  ELSE IF Len(p) = 1 THEN bytes(p[1]).v
  ELSE compile(SubSeq(p, 1, Len(p) \div 2))
       \o compile(SubSeq(p, Len(p) \div 2 + 1, Len(p)))

\* An add_instruction that puts the instruction in front of the others.
add_instruction_prepending(p, instruction) ==
  Done(<<instruction>> \o p, Len(p))

\* Program::add_instruction: push, then len - 1.
add_instruction(p, instruction) ==
  LET pushed == Append(p, instruction) IN Done(pushed, Len(pushed) - 1)

\* instructions.iter().take(index).map(|i| vm_ptr(i.size())).sum()
RECURSIVE sum_take(_, _)
sum_take(p, index) ==
  IF index = 0 \/ p = <<>> THEN W(0)
  ELSE IF index = 1 \/ Len(p) = 1 THEN vm_ptr(size(p[1]).v)
  ELSE IF index > Len(p) THEN sum_take(p, Len(p))
  ELSE wrapping_add(sum_take(SubSeq(p, 1, index \div 2), index \div 2),
                    sum_take(SubSeq(p, index \div 2 + 1, index), index - index \div 2))

\* A resolve() that takes the instruction count for an index too, and gives
\* the address after the last instruction for it.
resolve_past_end(p, index) ==
  LET addr == sum_take(p, index) IN
  IF index > Len(p) THEN Err("none")
  ELSE Ok([addr |-> addr,
           instruction |-> IF index = Len(p) THEN Nullary("Nop") ELSE p[index + 1]])

\* resolve() summing the sizes up to and including the indexed instruction.
resolve_inclusive(p, index) ==
  LET addr == sum_take(p, index + 1) IN
  IF index >= Len(p) THEN Err("none")
  ELSE Ok([addr |-> addr, instruction |-> p[index + 1]])

\* Program::resolve: Some((addr, instruction)), or None for an index that
\* holds no instruction.
resolve(p, index) ==
  LET addr == sum_take(p, index) IN
  IF index >= Len(p) THEN Err("none")
  ELSE Ok([addr |-> addr, instruction |-> p[index + 1]])

\* The source taken to be the address of the Data instruction itself.
data_source_at_opcode(addr) == addr

\* addr + 1 + vm_ptr(size_of::<VmPtr>()): the first payload byte of a Data.
data_source(addr) == wrapping_add(wrapping_add(addr, W(1)), vm_ptr(PtrSize))

\* An add_data that terminates the data itself.
add_data_terminated(p, data) ==
  add_instruction(p, Data(vm_ptr(Len(data) + 1), data \o <<0>>))

add_data(p, data) == add_instruction(p, Data(vm_ptr(Len(data)), data))

add_copy_data(p, for_data_index) ==
  LET r == resolve(p, for_data_index) IN
  IF ~r.ok THEN Err("Invalid data index")
  ELSE IF r.v.instruction.op # "Data" THEN Err("Data index doesn't point to data")
  ELSE add_instruction(p, CopyCodeMemory(data_source(r.v.addr), r.v.instruction.len))

add_dummy_copy_data(p) == add_instruction(p, CopyCodeMemory(VmPtrMAX, W(0)))

\* The arm of replace_dummy_copy_data that accepts the instruction to patch.
IsPatchableCopy(instruction) == instruction.op = "CopyCodeMemory"

replace_dummy_copy_data(p, index, data_index) ==
  LET r == resolve(p, data_index) IN
  IF ~r.ok THEN Err("Invalid data index")
  ELSE IF r.v.instruction.op # "Data" THEN Err("Data index doesn't point to data")
  ELSE IF index >= Len(p) THEN Err("Invalid instruction index")
  ELSE IF IsPatchableCopy(p[index + 1])
       THEN Done([p EXCEPT ![index + 1] =
                    CopyCodeMemory(data_source(r.v.addr), r.v.instruction.len)], "unit")
       ELSE Err("Instruction is not a dummy copy data")

\* The builder's ten add_<jump> functions and the variant each one emits; the
\* add_dummy_<jump> function of the same row emits the same variant.
JumpFns == <<
  <<"add_jump", "Jump">>,
  <<"add_call", "Call">>,
  <<"add_jump_equal", "JumpEqual">>,
  <<"add_jump_not_equal", "JumpNotEqual">>,
  <<"add_jump_greater", "JumpGreater">>,
  <<"add_jump_less", "JumpLess">>,
  <<"add_jump_greater_equal", "JumpGreaterEqual">>,
  <<"add_jump_less_equal", "JumpLessEqual">>,
  <<"add_jump_zero", "JumpZero">>,
  <<"add_jump_nonzero", "JumpNonzero">>
>>

\* add_jump, add_call, add_jump_equal, ...: fn is a row of JumpFns.
add_jump(p, fn, index) ==
  LET r == resolve(p, index) IN
  IF ~r.ok THEN Err("Invalid instruction index")
  ELSE add_instruction(p, WithPtr(JumpFns[fn][2], r.v.addr))

\* add_dummy_jump, add_dummy_call, add_dummy_jump_equal, ...
add_dummy_jump(p, fn) == add_instruction(p, WithPtr(JumpFns[fn][2], VmPtrMAX))

\* The variants replace_dummy_address matches, and its guard on the operand.
PatchableJumps ==
  {"Call", "Jump", "JumpEqual", "JumpNotEqual", "JumpLess", "JumpGreater",
   "JumpGreaterEqual", "JumpLessEqual", "JumpZero", "JumpNonzero"}

\* The match of replace_dummy_address without its guard on the operand.
IsDummyJump_unguarded(instruction) == instruction.op \in PatchableJumps

\* The match of replace_dummy_address with the guard negated.
IsDummyJump_negated(instruction) ==
  instruction.op \in PatchableJumps /\ instruction.ptr # VmPtrMAX

IsDummyJump(instruction) ==
  instruction.op \in PatchableJumps /\ instruction.ptr = VmPtrMAX

replace_dummy_address(p, index, jump_index) ==
  LET r == resolve(p, jump_index) IN
  IF ~r.ok THEN Err("Invalid jump index")
  ELSE IF index >= Len(p) THEN Err("Invalid instruction index")
  ELSE IF IsDummyJump(p[index + 1])
       THEN Done([p EXCEPT ![index + 1].ptr = r.v.addr], "unit")
       ELSE Err("Instruction is not a dummy jump or call")

\* ------------------------------------------------------------------ lib.rs
\* u32 arithmetic the interpreter uses beyond add, sub and cmp.

\* x * y for two 16-bit limbs, as a VmPtr (the product is below 2^32).
mul_limbs(x, y) ==
  LET t1 == (x \div 256) * y
      t0 == (x % 256) * y
  IN  wrapping_add(W(t0), <<t1 \div 256, (t1 % 256) * 256>>)

wrapping_mul(a, b) ==
  LET cross == (mul_limbs(a[1], b[2])[2] + mul_limbs(a[2], b[1])[2]) % Limb
  IN  wrapping_add(mul_limbs(a[2], b[2]), <<cross, 0>>)

\* a * b when it fits a u32.
checked_mul(a, b) ==
  LET p00 == mul_limbs(a[2], b[2])
      p01 == mul_limbs(a[2], b[1])
      p10 == mul_limbs(a[1], b[2])
      hi == p01[2] + p10[2] + p00[1]
  IN  IF (a[1] # 0 /\ b[1] # 0) \/ p01[1] # 0 \/ p10[1] # 0 \/ hi >= Limb
      THEN Err("overflow")
      ELSE Ok(<<hi, p00[2]>>)

\* Whether q * divisor <= value, q given by its four bytes.
quot_fits(value, divisor, q_bytes) ==
  LET p == checked_mul(from_be_bytes(q_bytes), divisor) IN
  p.ok /\ cmp(p.v, value) # "Greater"

\* The quotient bytes q_bytes with place k set to the largest byte that fits,
\* the places above k being settled and those below still zero.
quot_digit(value, divisor, q_bytes, k) ==
  [q_bytes EXCEPT ![k] =
     CHOOSE x \in Byte :
       /\ quot_fits(value, divisor, [q_bytes EXCEPT ![k] = x])
       /\ x = 255 \/ ~quot_fits(value, divisor, [q_bytes EXCEPT ![k] = x + 1])]

\* value / divisor and value % divisor for divisor # 0: the quotient is found
\* byte by byte from the most significant one, the remainder is what is left.
div_rem(value, divisor) ==
  LET quot == from_be_bytes(
        quot_digit(value, divisor,
          quot_digit(value, divisor,
            quot_digit(value, divisor,
              quot_digit(value, divisor, <<0, 0, 0, 0>>, 1), 2), 3), 4))
  IN  [quot |-> quot, rem |-> wrapping_sub(value, wrapping_mul(quot, divisor))]

\* --------------------------------------------------- program.rs: from_str
\* Text is a sequence of characters, each a string of one character.

\* char::is_whitespace, for the characters of the model.
WhiteSpace == {" ", "\t"}

\* str::trim
trim(line) ==
  LET keep == {k \in 1..Len(line) : line[k] \notin WhiteSpace} IN
  IF keep = {} THEN <<>>
  ELSE SubSeq(line, CHOOSE k \in keep : \A j \in keep : k <= j,
                    CHOOSE k \in keep : \A j \in keep : k >= j)

\* str::split_whitespace, collected: the maximal runs of other characters.
split_whitespace(line) ==
  LET starts == {k \in 1..Len(line) :
                   line[k] \notin WhiteSpace /\ (k = 1 \/ line[k - 1] \in WhiteSpace)}
      ends == {k \in 1..Len(line) :
                 line[k] \notin WhiteSpace /\ (k = Len(line) \/ line[k + 1] \in WhiteSpace)}
      nth(S, n) == CHOOSE k \in S : Cardinality({j \in S : j < k}) = n - 1
  IN  [n \in 1..Cardinality(starts) |-> SubSeq(line, nth(starts, n), nth(ends, n))]

\* str::to_lowercase, for the ASCII letters.
UpperCase ==
  <<"A", "B", "C", "D", "E", "F", "G", "H", "I", "J", "K", "L", "M", "N", "O", "P", "Q", "R", "S", "T", "U", "V", "W", "X", "Y", "Z">>
LowerCase ==
  <<"a", "b", "c", "d", "e", "f", "g", "h", "i", "j", "k", "l", "m", "n", "o", "p", "q", "r", "s", "t", "u", "v", "w", "x", "y", "z">>
to_lowercase(s) ==
  [k \in 1..Len(s) |->
     IF \E j \in 1..Len(UpperCase) : UpperCase[j] = s[k]
     THEN LowerCase[CHOOSE j \in 1..Len(UpperCase) : UpperCase[j] = s[k]]
     ELSE s[k]]

\* The character U+0000, which a str can hold, as the model writes it.
NulChar == "NUL"

\* The bytes of a str: the printable ASCII characters from 32 on, the tab and
\* U+0000 (the place of byte 96, which no text of the model holds, is left
\* empty).
Ascii ==
  <<" ", "!", "\"", "#", "$", "%", "&", "'", "(", ")", "*", "+", ",", "-", ".", "/",
    "0", "1", "2", "3", "4", "5", "6", "7", "8", "9", ":", ";", "<", "=", ">", "?",
    "@", "A", "B", "C", "D", "E", "F", "G", "H", "I", "J", "K", "L", "M", "N", "O",
    "P", "Q", "R", "S", "T", "U", "V", "W", "X", "Y", "Z", "[", "\\", "]", "^", "_",
    "", "a", "b", "c", "d", "e", "f", "g", "h", "i", "j", "k", "l", "m", "n", "o",
    "p", "q", "r", "s", "t", "u", "v", "w", "x", "y", "z", "{", "|", "}", "~">>
as_bytes(s) ==
  [k \in 1..Len(s) |->
     IF s[k] = "\t" THEN 9
     ELSE IF s[k] = NulChar THEN 0
     ELSE 31 + CHOOSE j \in 1..Len(Ascii) : Ascii[j] = s[k]]

\* u32::from_str, the loop over the digits: acc * 10 + digit, checked.
Digits == <<"0", "1", "2", "3", "4", "5", "6", "7", "8", "9">>
RECURSIVE from_digits(_, _, _)
from_digits(src, k, acc) ==
  IF k > Len(src) THEN Ok(acc)
  ELSE IF ~\E d \in 1..10 : Digits[d] = src[k] THEN Err("invalid digit found in string")
  ELSE LET scaled == checked_mul(acc, W(10)) IN
       IF ~scaled.ok THEN Err("number too large to fit in target type")
       ELSE LET sum == checked_add(scaled.v, W((CHOOSE d \in 1..10 : Digits[d] = src[k]) - 1))
            IN  IF ~sum.ok THEN Err("number too large to fit in target type")
                ELSE from_digits(src, k + 1, sum.v)

\* parts[n].parse::<VmPtr>(): an optional "+", then digits.
parse_vm_ptr(src) ==
  IF src = <<>> THEN Err("cannot parse integer from empty string")
  ELSE IF src \in {<<"+">>, <<"-">>} THEN Err("invalid digit found in string")
  ELSE IF src[1] = "+" THEN from_digits(Tail(src), 1, W(0))
  ELSE from_digits(src, 1, W(0))

\* parts[n].parse::<u8>()
parse_u8(src) ==
  LET r == parse_vm_ptr(src) IN
  IF r.ok /\ cmp(r.v, W(255)) = "Greater"
  THEN Err("number too large to fit in target type")
  ELSE IF r.ok THEN Ok(r.v[2]) ELSE r

\* The command of each match arm of from_str that emits an instruction, in the
\* order of ParseTable: Mnemonics[k] emits the variant ParseTable[k][1].
Mnemonics == <<
  <<"n", "o", "p">>,
  <<"h", "a", "l", "t">>,
  <<"l", "o", "a", "d", "8">>,
  <<"s", "t", "o", "r", "e", "8">>,
  <<"l", "o", "a", "d", "1", "6">>,
  <<"s", "t", "o", "r", "e", "1", "6">>,
  <<"l", "o", "a", "d", "3", "2">>,
  <<"s", "t", "o", "r", "e", "3", "2">>,
  <<"s", "e", "t">>,
  <<"d", "e", "r", "e", "f", "8">>,
  <<"d", "e", "r", "e", "f", "1", "6">>,
  <<"d", "e", "r", "e", "f", "3", "2">>,
  <<"s", "y", "s", "c", "a", "l", "l">>,
  <<"c", "o", "p", "y", "c", "o", "d", "e", "m", "e", "m", "o", "r", "y">>,
  <<"d", "a", "t", "a", "s", "t", "r", "i", "n", "g">>,
  <<"s", "w", "a", "p">>,
  <<"w", "r", "i", "t", "e", "8">>,
  <<"w", "r", "i", "t", "e", "1", "6">>,
  <<"w", "r", "i", "t", "e", "3", "2">>,
  <<"r", "e", "a", "d", "s", "t", "a", "c", "k", "p", "o", "i", "n", "t", "e", "r">>,
  <<"w", "r", "i", "t", "e", "s", "t", "a", "c", "k", "p", "o", "i", "n", "t", "e", "r">>,
  <<"j", "u", "m", "p">>,
  <<"c", "a", "l", "l">>,
  <<"r", "e", "t", "u", "r", "n">>,
  <<"i", "n", "c", "r", "e", "m", "e", "n", "t">>,
  <<"d", "e", "c", "r", "e", "m", "e", "n", "t">>,
  <<"a", "d", "d">>,
  <<"s", "u", "b">>,
  <<"c", "o", "m", "p", "a", "r", "e">>,
  <<"j", "u", "m", "p", "e", "q", "u", "a", "l">>,
  <<"j", "u", "m", "p", "n", "o", "t", "e", "q", "u", "a", "l">>,
  <<"j", "u", "m", "p", "g", "r", "e", "a", "t", "e", "r">>,
  <<"j", "u", "m", "p", "l", "e", "s", "s">>,
  <<"j", "u", "m", "p", "g", "r", "e", "a", "t", "e", "r", "e", "q", "u", "a", "l">>,
  <<"j", "u", "m", "p", "l", "e", "s", "s", "e", "q", "u", "a", "l">>,
  <<"j", "u", "m", "p", "z", "e", "r", "o">>,
  <<"j", "u", "m", "p", "n", "o", "n", "z", "e", "r", "o">>,
  <<"p", "u", "s", "h">>,
  <<"p", "o", "p">>,
  <<"p", "u", "s", "h", "r", "e", "g", "i", "s", "t", "e", "r">>,
  <<"p", "o", "p", "r", "e", "g", "i", "s", "t", "e", "r">>,
  <<"m", "u", "l">>,
  <<"d", "i", "v">>,
  <<"i", "n", "c", "r", "e", "m", "e", "n", "t", "r", "e", "g", "i", "s", "t", "e", "r">>,
  <<"d", "e", "c", "r", "e", "m", "e", "n", "t", "r", "e", "g", "i", "s", "t", "e", "r">>,
  <<"s", "e", "t", "r", "e", "g", "i", "s", "t", "e", "r">>
>>

\* from_str's locals before its first loop.
FromStrNew ==
  [program |-> <<>>, next_index |-> 0, label_index |-> <<>>,
   dummy_jumps |-> <<>>, dummy_copy_data |-> <<>>]

\* What an arm does after program.add_...(): the Program with the instruction
\* pushed, and next_index += 1.
emitted(s, added) == Ok([s EXCEPT !.program = added.p, !.next_index = @ + 1])

\* The arms of from_str's match that emit an instruction: parts of the line,
\* the line itself, the variant of the arm and its operands' layout.
emit_arm(s, line, parts, op, lay) ==
  CASE lay = "none" /\ Len(parts) = 1 -> emitted(s, add_instruction(s.program, Nullary(op)))
    [] lay = "ptr" /\ Len(parts) = 2 /\ op \in PatchableJumps ->
       LET added == add_dummy_jump(s.program, CHOOSE fn \in 1..Len(JumpFns) : JumpFns[fn][2] = op)
       IN  emitted([s EXCEPT !.dummy_jumps = Append(@, <<added.v, parts[2]>>)], added)
    [] lay = "ptr" /\ Len(parts) = 2 /\ op \notin PatchableJumps ->
       LET ptr == parse_vm_ptr(parts[2]) IN
       IF ~ptr.ok THEN ptr ELSE emitted(s, add_instruction(s.program, WithPtr(op, ptr.v)))
    [] lay = "reg" /\ Len(parts) = 2 ->
       LET register == parse_u8(parts[2]) IN
       IF ~register.ok THEN register
       ELSE emitted(s, add_instruction(s.program, WithReg(op, register.v)))
    [] lay = "ptr_ptr" /\ Len(parts) = 2 ->
       LET added == add_dummy_copy_data(s.program) IN
       emitted([s EXCEPT !.dummy_copy_data = Append(@, <<added.v, parts[2]>>)], added)
    [] lay = "data" ->
       LET text == as_bytes(trim(SubSeq(line, 11, Len(line)))) IN
       IF \E k \in 1..Len(text) : text[k] = 0 THEN Err("nul byte found in provided data")
       ELSE emitted(s, add_data(s.program, text \o <<0>>))
    [] lay = "reg_ptr" /\ Len(parts) = 3 ->
       LET register == parse_u8(parts[2])
           value == parse_vm_ptr(parts[3])
       IN  IF ~register.ok THEN register
           ELSE IF ~value.ok THEN value
           ELSE emitted(s, add_instruction(s.program, SetRegister(register.v, value.v)))
    [] OTHER -> Err("Unknown command or wrong number of arguments")

\* label_index.insert(name, index)
insert(map, name, index) ==
  [n \in DOMAIN map \cup {name} |-> IF n = name THEN index ELSE map[n]]

\* from_str's first loop with a last arm that passes over the line.
read_line_skipping(s, raw) ==
  LET line == trim(raw)
      parts == split_whitespace(line)
      cmd == to_lowercase(parts[1])
  IN  IF line = <<>> THEN Ok(s)
      ELSE IF cmd \in {<<"#">>, <<"/", "/">>} THEN Ok(s)
      ELSE IF cmd = <<"l", "a", "b", "e", "l">> /\ Len(parts) = 2
      THEN Ok([s EXCEPT !.label_index = insert(@, parts[2], s.next_index)])
      ELSE IF \E k \in 1..Len(Mnemonics) : Mnemonics[k] = cmd
      THEN emit_arm(s, line, parts,
                    ParseTable[CHOOSE k \in 1..Len(Mnemonics) : Mnemonics[k] = cmd][1],
                    ParseTable[CHOOSE k \in 1..Len(Mnemonics) : Mnemonics[k] = cmd][2])
      ELSE Ok(s)

\* One round of from_str's first loop, on one line of input.lines(): the line
\* is trimmed and passed over when empty; otherwise its first part, in lower
\* case, selects the arm.
read_line(s, raw) ==
  LET line == trim(raw)
      parts == split_whitespace(line)
      cmd == to_lowercase(parts[1])
  IN  IF line = <<>> THEN Ok(s)
      ELSE IF cmd \in {<<"#">>, <<"/", "/">>} THEN Ok(s)
      ELSE IF cmd = <<"l", "a", "b", "e", "l">> /\ Len(parts) = 2
      THEN Ok([s EXCEPT !.label_index = insert(@, parts[2], s.next_index)])
      ELSE IF \E k \in 1..Len(Mnemonics) : Mnemonics[k] = cmd
      THEN emit_arm(s, line, parts,
                    ParseTable[CHOOSE k \in 1..Len(Mnemonics) : Mnemonics[k] = cmd][1],
                    ParseTable[CHOOSE k \in 1..Len(Mnemonics) : Mnemonics[k] = cmd][2])
      ELSE Err("Unknown command or wrong number of arguments")

\* The second loop with the label's instruction count written as the address.
patch_jump_to_index(s) ==
  LET index == s.dummy_jumps[1][1]
      label == s.dummy_jumps[1][2]
  IN  IF label \notin DOMAIN s.label_index THEN Err("Unresolved label")
      ELSE Ok([s EXCEPT !.program[index + 1].ptr = W(s.label_index[label]),
                        !.dummy_jumps = Tail(@)])

\* One round of from_str's second loop: the first queued jump is patched.
patch_jump(s) ==
  LET index == s.dummy_jumps[1][1]
      label == s.dummy_jumps[1][2]
  IN  IF label \notin DOMAIN s.label_index THEN Err("Unresolved label")
      ELSE LET r == replace_dummy_address(s.program, index, s.label_index[label]) IN
           IF ~r.ok THEN r
           ELSE Ok([s EXCEPT !.program = r.p, !.dummy_jumps = Tail(@)])

\* The third loop taking the queued copy off the queue and leaving it as it is.
patch_copy_leaving_dummy(s) ==
  LET label == s.dummy_copy_data[1][2]
  IN  IF label \notin DOMAIN s.label_index THEN Err("Unresolved label")
      ELSE Ok([s EXCEPT !.dummy_copy_data = Tail(@)])

\* One round of from_str's third loop: the first queued copy is patched.
patch_copy(s) ==
  LET index == s.dummy_copy_data[1][1]
      label == s.dummy_copy_data[1][2]
  IN  IF label \notin DOMAIN s.label_index THEN Err("Unresolved label")
      ELSE LET r == replace_dummy_copy_data(s.program, index, s.label_index[label]) IN
           IF ~r.ok THEN r
           ELSE Ok([s EXCEPT !.program = r.p, !.dummy_copy_data = Tail(@)])

\* ------------------------------------------------------- lib.rs: Machine
\* The Machine, as a record of its fields and of what it has printed.
MachineNew(program, memory_size, side_regs) ==
  [program |-> program,
   memory |-> [k \in 1..native_ptr(memory_size) |-> 0],
   instruction_pointer |-> W(0),
   stack_pointer |-> memory_size,
   main_register |-> W(0),
   side_registers |-> [k \in 1..side_regs |-> W(0)],
   flag_zero |-> TRUE,
   flag_comparison |-> "Equal",
   output |-> <<>>]

\* What a step() call yields: the Machine after it and its anyhow::Result<bool>.
Continue(m) == [m |-> m, res |-> Ok(TRUE)]
Fail(m, e) == [m |-> m, res |-> Err(e)]

\* A memory access whose address is reduced modulo the memory size.
mem_from_wrapping(m, ptr) ==
  IF m.memory = <<>> THEN GetFrom(m.memory, ptr)
  ELSE GetFrom(m.memory, W(ptr[2] % Len(m.memory)))

\* Machine::memory / memory_mut: the slice of memory from ptr on.
mem_from(m, ptr) ==
  LET s == GetFrom(m.memory, ptr) IN
  IF s.ok THEN s ELSE Err("Out of memory access occured at")

\* Machine::side_register / side_register_mut.
side_register(m, reg) ==
  IF reg + 1 > Len(m.side_registers) THEN Err("Side register out of bounds")
  ELSE Ok(m.side_registers[reg + 1])

\* A write that grows the memory to take the bytes that find no room.
write_at_growing(memory, ptr, value_bytes) ==
  LET base == native_ptr(ptr) IN
  [memory |-> SubSeq(memory, 1, base) \o value_bytes
                \o SubSeq(memory, base + Len(value_bytes) + 1, Len(memory)),
   ok |-> Len(memory) - base >= Len(value_bytes)]

\* write_u8 / write_u16 / write_u32 on memory_mut(ptr): the value's bytes are
\* stored one after the other, and the first one that finds no byte left in the
\* slice ends the write with an error, the earlier ones staying written.
write_at(memory, ptr, value_bytes) ==
  LET base == native_ptr(ptr)
      n == IF Len(memory) - base < Len(value_bytes)
           THEN Len(memory) - base ELSE Len(value_bytes)
  IN  [memory |-> [k \in 1..Len(memory) |->
                     IF k > base /\ k <= base + n THEN value_bytes[k - base]
                     ELSE memory[k]],
       ok |-> n = Len(value_bytes)]

\* memory_mut(ptr)? followed by write_uN(mem, value)?.
store(m, ptr, value_bytes) ==
  IF ~mem_from(m, ptr).ok THEN Fail(m, mem_from(m, ptr).err)
  ELSE LET w == write_at(m.memory, ptr, value_bytes) IN
       IF w.ok THEN Continue([m EXCEPT !.memory = w.memory])
       ELSE Fail([m EXCEPT !.memory = w.memory],
                 "Out of memory access occurred at the border")

\* memory(ptr)? followed by read_uN(mem)?, widened into the main register.
u16_bytes(lo) == <<lo \div 256, lo % 256>>
load(m, ptr, width) ==
  LET s == mem_from(m, ptr) IN
  IF ~s.ok THEN Fail(m, s.err)
  ELSE LET r == CASE width = 8 -> read_u8(s.v)
                  [] width = 16 -> read_u16(s.v)
                  [] width = 32 -> read_u32(s.v)
       IN  IF ~r.ok THEN Fail(m, r.err)
           ELSE Continue([m EXCEPT !.main_register =
                            IF width = 32 THEN r.v ELSE <<0, r.v>>])

\* The low bits of the main register stored low byte first.
low_bytes_little_endian(value, width) ==
  CASE width = 8 -> <<value[2] % 256>>
    [] width = 16 -> <<value[2] % 256, value[2] \div 256>>
    [] width = 32 -> <<value[2] % 256, value[2] \div 256, value[1] % 256, value[1] \div 256>>

\* The low `width` bits of the main register, big-endian: `as u8`, `as u16`,
\* `as u32` followed by to_be_bytes.
low_bytes(value, width) ==
  CASE width = 8 -> <<value[2] % 256>>
    [] width = 16 -> u16_bytes(value[2])
    [] width = 32 -> to_be_bytes(value)

\* CStr::from_bytes_until_nul: the bytes before the first NUL.
RECURSIVE until_nul(_)
until_nul(buffer) ==
  IF buffer = <<>> THEN Err("Out of memory access occurred at the border")
  ELSE IF Head(buffer) = 0 THEN Ok(<<>>)
  ELSE LET rest == until_nul(Tail(buffer)) IN
       IF rest.ok THEN Ok(<<Head(buffer)>> \o rest.v) ELSE rest
read_cstr(buffer) == until_nul(buffer)

\* CStr::to_str: whether the bytes are well-formed UTF-8.
RECURSIVE is_utf8(_)
is_utf8(s) ==
  LET cont(k, lo, hi) == Len(s) >= k /\ s[k] >= lo /\ s[k] <= hi
      after(n) == is_utf8(SubSeq(s, n + 1, Len(s)))
  IN  IF s = <<>> THEN TRUE
      ELSE IF s[1] <= 127 THEN after(1)
      ELSE IF s[1] >= 194 /\ s[1] <= 223 THEN cont(2, 128, 191) /\ after(2)
      ELSE IF s[1] = 224 THEN cont(2, 160, 191) /\ cont(3, 128, 191) /\ after(3)
      ELSE IF s[1] = 237 THEN cont(2, 128, 159) /\ cont(3, 128, 191) /\ after(3)
      ELSE IF s[1] >= 225 /\ s[1] <= 239
           THEN cont(2, 128, 191) /\ cont(3, 128, 191) /\ after(3)
      ELSE IF s[1] = 240
           THEN cont(2, 144, 191) /\ cont(3, 128, 191) /\ cont(4, 128, 191) /\ after(4)
      ELSE IF s[1] >= 241 /\ s[1] <= 243
           THEN cont(2, 128, 191) /\ cont(3, 128, 191) /\ cont(4, 128, 191) /\ after(4)
      ELSE IF s[1] = 244
           THEN cont(2, 128, 143) /\ cont(3, 128, 191) /\ cont(4, 128, 191) /\ after(4)
      ELSE FALSE

\* Machine::syscall.  What is printed is appended to `output` as an event:
\* println!("{s}"), print!("{}", main_register) or print!("{s}").
print_string(m, event) ==
  LET mem == mem_from(m, m.main_register) IN
  IF ~mem.ok THEN Fail(m, mem.err)
  ELSE LET cstr == read_cstr(mem.v) IN
       IF ~cstr.ok THEN Fail(m, cstr.err)
       ELSE IF ~is_utf8(cstr.v) THEN Fail(m, "Accessed invalid string at")
       ELSE Continue([m EXCEPT !.output = Append(@, <<event, cstr.v>>)])

syscall(m, index) ==
  CASE index = 0 -> print_string(m, "println")
    [] index = 1 -> Continue([m EXCEPT !.output = Append(@, <<"print_number", m.main_register>>)])
    [] index = 2 -> print_string(m, "print")
    [] OTHER -> Fail(m, "Unknown syscall")

\* The arms of step()'s match, one operator per kind of arm.  m is the Machine
\* with the instruction pointer already advanced.

\* vm_ptr(size_of::<VmPtr>())
WordBytes == vm_ptr(PtrSize)

exec_Deref(m, reg, width) ==
  LET ptr == side_register(m, reg) IN
  IF ~ptr.ok THEN Fail(m, ptr.err) ELSE load(m, ptr.v, width)

exec_Write(m, reg, width) ==
  LET ptr == side_register(m, reg) IN
  IF ~ptr.ok THEN Fail(m, ptr.err)
  ELSE store(m, ptr.v, low_bytes(m.main_register, width))

\* get(start..(start + size)) on a buffer: the range lies inside it.  The sum
\* is a usize, so it does not wrap.
\* A range test that looks only at where the range starts.
range_inside_start(buffer, start, count) ==
  start[1] = 0 /\ start[2] <= Len(buffer)

range_inside(buffer, start, count) ==
  start[1] = 0 /\ count[1] = 0 /\ start[2] + count[2] <= Len(buffer)

\* A copy that leaves out the first byte.
exec_CopyCodeMemory_short(m, source, count) ==
  LET target == m.main_register IN
  IF ~range_inside(m.program, source, count)
  THEN Fail(m, "Out of memory access occurred at program memory")
  ELSE IF ~range_inside(m.memory, target, count)
  THEN Fail(m, "Out of memory access occurred at")
  ELSE Continue([m EXCEPT !.memory =
         [k \in 1..Len(m.memory) |->
            IF k > target[2] + 1 /\ k <= target[2] + count[2]
            THEN m.program[source[2] + (k - target[2])]
            ELSE m.memory[k]]])

exec_CopyCodeMemory(m, source, count) ==
  LET target == m.main_register IN
  IF ~range_inside(m.program, source, count)
  THEN Fail(m, "Out of memory access occurred at program memory")
  ELSE IF ~range_inside(m.memory, target, count)
  THEN Fail(m, "Out of memory access occurred at")
  ELSE Continue([m EXCEPT !.memory =
         [k \in 1..Len(m.memory) |->
            IF k > target[2] /\ k <= target[2] + count[2]
            THEN m.program[source[2] + (k - target[2])]
            ELSE m.memory[k]]])

exec_Swap(m, reg) ==
  IF reg + 1 > Len(m.side_registers) THEN Fail(m, "Side register out of bounds")
  ELSE Continue([m EXCEPT !.main_register = m.side_registers[reg + 1],
                          !.side_registers[reg + 1] = m.main_register])

\* A Push whose stack pointer wraps below zero.
exec_Push_wrapping(m) ==
  LET sp == wrapping_sub(m.stack_pointer, WordBytes) IN
  store([m EXCEPT !.stack_pointer = sp], sp, to_be_bytes(m.main_register))

\* Push, PushRegister and Call: the stack pointer is decremented and assigned
\* before the value is fetched and written.
exec_Push(m) ==
  LET sp == checked_sub(m.stack_pointer, WordBytes) IN
  IF ~sp.ok THEN Fail(m, "Stack overflow")
  ELSE store([m EXCEPT !.stack_pointer = sp.v], sp.v, to_be_bytes(m.main_register))

exec_PushRegister(m, reg) ==
  LET sp == checked_sub(m.stack_pointer, WordBytes) IN
  IF ~sp.ok THEN Fail(m, "Stack overflow")
  ELSE LET m1 == [m EXCEPT !.stack_pointer = sp.v]
           value == side_register(m1, reg)
       IN  IF ~value.ok THEN Fail(m1, value.err)
           ELSE store(m1, sp.v, to_be_bytes(value.v))

\* A Call that lowers the stack pointer without the check.
exec_Call_wrapping(m, addr) ==
  LET m1 == [m EXCEPT !.stack_pointer = wrapping_sub(m.stack_pointer, WordBytes)]
      w == store(m1, m1.stack_pointer, to_be_bytes(m1.instruction_pointer))
  IN  IF ~w.res.ok THEN w
      ELSE Continue([w.m EXCEPT !.instruction_pointer = addr])

exec_Call(m, addr) ==
  LET sp == checked_sub(m.stack_pointer, WordBytes) IN
  IF ~sp.ok THEN Fail(m, "Stack overflow")
  ELSE LET m1 == [m EXCEPT !.stack_pointer = sp.v]
           w == store(m1, sp.v, to_be_bytes(m1.instruction_pointer))
       IN  IF ~w.res.ok THEN w
           ELSE Continue([w.m EXCEPT !.instruction_pointer = addr])

\* A Pop that increments the stack pointer before it reads the word.
exec_Pop_increment_first(m) ==
  LET sp == checked_add(m.stack_pointer, WordBytes) IN
  IF ~sp.ok THEN Fail(m, "Stack underflow")
  ELSE LET mem == mem_from(m, sp.v) IN
       IF ~mem.ok THEN Fail(m, mem.err)
       ELSE LET value == read_vm_ptr(mem.v) IN
            IF ~value.ok THEN Fail(m, value.err)
            ELSE Continue([m EXCEPT !.main_register = value.v, !.stack_pointer = sp.v])

\* Pop, PopRegister and Return: the word is read and assigned, then the stack
\* pointer incremented.
exec_Pop(m) ==
  LET mem == mem_from(m, m.stack_pointer) IN
  IF ~mem.ok THEN Fail(m, mem.err)
  ELSE LET value == read_vm_ptr(mem.v) IN
       IF ~value.ok THEN Fail(m, value.err)
       ELSE LET m1 == [m EXCEPT !.main_register = value.v]
                sp == checked_add(m1.stack_pointer, WordBytes)
            IN  IF ~sp.ok THEN Fail(m1, "Stack underflow")
                ELSE Continue([m1 EXCEPT !.stack_pointer = sp.v])

\* A PopRegister that takes the word off the stack and leaves the register.
exec_PopRegister_discarding(m, reg) ==
  LET mem == mem_from(m, m.stack_pointer) IN
  IF ~mem.ok THEN Fail(m, mem.err)
  ELSE LET value == read_vm_ptr(mem.v) IN
       IF ~value.ok THEN Fail(m, value.err)
       ELSE IF ~side_register(m, reg).ok THEN Fail(m, side_register(m, reg).err)
       ELSE LET sp == checked_add(m.stack_pointer, WordBytes)
            IN  IF ~sp.ok THEN Fail(m, "Stack underflow")
                ELSE Continue([m EXCEPT !.stack_pointer = sp.v])

exec_PopRegister(m, reg) ==
  LET mem == mem_from(m, m.stack_pointer) IN
  IF ~mem.ok THEN Fail(m, mem.err)
  ELSE LET value == read_vm_ptr(mem.v) IN
       IF ~value.ok THEN Fail(m, value.err)
       ELSE IF ~side_register(m, reg).ok THEN Fail(m, side_register(m, reg).err)
       ELSE LET m1 == [m EXCEPT !.side_registers[reg + 1] = value.v]
                sp == checked_add(m1.stack_pointer, WordBytes)
            IN  IF ~sp.ok THEN Fail(m1, "Stack underflow")
                ELSE Continue([m1 EXCEPT !.stack_pointer = sp.v])

exec_Return(m) ==
  LET mem == mem_from(m, m.stack_pointer) IN
  IF ~mem.ok THEN Fail(m, mem.err)
  ELSE LET value == read_vm_ptr(mem.v) IN
       IF ~value.ok THEN Fail(m, value.err)
       ELSE LET m1 == [m EXCEPT !.instruction_pointer = value.v]
                sp == checked_add(m1.stack_pointer, WordBytes)
            IN  IF ~sp.ok THEN Fail(m1, "Stack underflow")
                ELSE Continue([m1 EXCEPT !.stack_pointer = sp.v])

\* Add, Sub and Mul: the main register combined with side register reg.
\* Arithmetic that fails when the result does not fit the word.
exec_Arith_checked(m, op, reg) ==
  LET s == side_register(m, reg) IN
  IF ~s.ok THEN Fail(m, s.err)
  ELSE IF op = "Add" /\ ~checked_add(m.main_register, s.v).ok THEN Fail(m, "overflow")
  ELSE IF op = "Sub" /\ ~checked_sub(m.main_register, s.v).ok THEN Fail(m, "overflow")
  ELSE IF op = "Mul" /\ ~checked_mul(m.main_register, s.v).ok THEN Fail(m, "overflow")
  ELSE Continue([m EXCEPT !.main_register =
         CASE op = "Add" -> wrapping_add(m.main_register, s.v)
           [] op = "Sub" -> wrapping_sub(m.main_register, s.v)
           [] op = "Mul" -> wrapping_mul(m.main_register, s.v)])

\* Arithmetic that sets the zero flag from its result.
exec_Arith_flagging(m, op, reg) ==
  LET s == side_register(m, reg) IN
  IF ~s.ok THEN Fail(m, s.err)
  ELSE LET r == CASE op = "Add" -> wrapping_add(m.main_register, s.v)
                  [] op = "Sub" -> wrapping_sub(m.main_register, s.v)
                  [] op = "Mul" -> wrapping_mul(m.main_register, s.v)
       IN  Continue([m EXCEPT !.main_register = r, !.flag_zero = (r = W(0))])

exec_Arith(m, op, reg) ==
  LET s == side_register(m, reg) IN
  IF ~s.ok THEN Fail(m, s.err)
  ELSE Continue([m EXCEPT !.main_register =
         CASE op = "Add" -> wrapping_add(m.main_register, s.v)
           [] op = "Sub" -> wrapping_sub(m.main_register, s.v)
           [] op = "Mul" -> wrapping_mul(m.main_register, s.v)])

\* A Div that clears the main register before it tests the divisor.
exec_Div_clearing(m, reg) ==
  LET value == m.main_register
      register == side_register(m, reg)
  IN  IF ~register.ok THEN Fail(m, register.err)
      ELSE IF register.v = W(0)
      THEN Fail([m EXCEPT !.main_register = W(0)], "Division by zero")
      ELSE LET d == div_rem(value, register.v) IN
           Continue([m EXCEPT !.side_registers[reg + 1] = d.rem,
                              !.main_register = d.quot])

\* A Div that keeps the quotient and drops the remainder.
exec_Div_quotient_only(m, reg) ==
  LET value == m.main_register
      register == side_register(m, reg)
  IN  IF ~register.ok THEN Fail(m, register.err)
      ELSE IF register.v = W(0) THEN Fail(m, "Division by zero")
      ELSE Continue([m EXCEPT !.main_register = div_rem(value, register.v).quot])

exec_Div(m, reg) ==
  LET value == m.main_register
      register == side_register(m, reg)
  IN  IF ~register.ok THEN Fail(m, register.err)
      ELSE IF register.v = W(0) THEN Fail(m, "Division by zero")
      ELSE LET d == div_rem(value, register.v) IN
           Continue([m EXCEPT !.side_registers[reg + 1] = d.rem,
                              !.main_register = d.quot])

exec_Compare(m, reg) ==
  LET s == side_register(m, reg) IN
  IF ~s.ok THEN Fail(m, s.err)
  ELSE Continue([m EXCEPT !.flag_comparison = cmp(m.main_register, s.v)])

\* The condition of each conditional jump.
\* Jump conditions in which "or equal" is left out.
jump_taken_strict(m, op) ==
  CASE op = "JumpEqual" -> m.flag_comparison = "Equal"
    [] op = "JumpNotEqual" -> m.flag_comparison # "Equal"
    [] op = "JumpGreater" -> m.flag_comparison = "Greater"
    [] op = "JumpLess" -> m.flag_comparison = "Less"
    [] op = "JumpGreaterEqual" -> m.flag_comparison = "Greater"
    [] op = "JumpLessEqual" -> m.flag_comparison = "Less"
    [] op = "JumpZero" -> m.flag_zero
    [] op = "JumpNonzero" -> ~m.flag_zero

jump_taken(m, op) ==
  CASE op = "JumpEqual" -> m.flag_comparison = "Equal"
    [] op = "JumpNotEqual" -> m.flag_comparison # "Equal"
    [] op = "JumpGreater" -> m.flag_comparison = "Greater"
    [] op = "JumpLess" -> m.flag_comparison = "Less"
    [] op = "JumpGreaterEqual" -> m.flag_comparison # "Less"
    [] op = "JumpLessEqual" -> m.flag_comparison # "Greater"
    [] op = "JumpZero" -> m.flag_zero
    [] op = "JumpNonzero" -> ~m.flag_zero

\* A conditional jump that tests the register and not the flag.
exec_JumpIf_on_register(m, op, addr) ==
  IF op \in {"JumpZero", "JumpNonzero"}
  THEN (IF (m.main_register = W(1)) = (op = "JumpZero")
        THEN Continue([m EXCEPT !.instruction_pointer = addr]) ELSE Continue(m))
  ELSE IF jump_taken(m, op) THEN Continue([m EXCEPT !.instruction_pointer = addr])
  ELSE Continue(m)

exec_JumpIf(m, op, addr) ==
  IF jump_taken(m, op) THEN Continue([m EXCEPT !.instruction_pointer = addr])
  ELSE Continue(m)

\* An Increment that stops at the maximum value.
exec_Step1_saturating(m, op) ==
  LET value == IF op = "Increment"
               THEN (IF m.main_register = VmPtrMAX THEN VmPtrMAX
                     ELSE wrapping_add(m.main_register, W(1)))
               ELSE wrapping_sub(m.main_register, W(1))
  IN  Continue([m EXCEPT !.main_register = value, !.flag_zero = (value = W(0))])

\* Increment and Decrement of the main register.
exec_Step1(m, op) ==
  LET value == IF op = "Increment" THEN wrapping_add(m.main_register, W(1))
               ELSE wrapping_sub(m.main_register, W(1))
  IN  Continue([m EXCEPT !.main_register = value, !.flag_zero = (value = W(0))])

\* IncrementRegister and DecrementRegister.
exec_StepRegister(m, op, reg) ==
  LET register == side_register(m, reg) IN
  IF ~register.ok THEN Fail(m, register.err)
  ELSE LET value == IF op = "IncrementRegister" THEN wrapping_add(register.v, W(1))
                    ELSE wrapping_sub(register.v, W(1))
       IN  Continue([m EXCEPT !.side_registers[reg + 1] = value,
                              !.flag_zero = (value = W(0))])

exec_SetRegister(m, reg, value) ==
  IF ~side_register(m, reg).ok THEN Fail(m, side_register(m, reg).err)
  ELSE Continue([m EXCEPT !.side_registers[reg + 1] = value])

\* step()'s match on the decoded instruction.
execute(m, i) ==
  CASE i.op \in {"Nop", "Data"} -> Continue(m)
    [] i.op = "Halt" -> [m |-> m, res |-> Ok(FALSE)]
    [] i.op = "Load8" -> load(m, i.ptr, 8)
    [] i.op = "Store8" -> store(m, i.ptr, low_bytes(m.main_register, 8))
    [] i.op = "Load16" -> load(m, i.ptr, 16)
    [] i.op = "Store16" -> store(m, i.ptr, low_bytes(m.main_register, 16))
    [] i.op = "Load32" -> load(m, i.ptr, 32)
    [] i.op = "Store32" -> store(m, i.ptr, low_bytes(m.main_register, 32))
    [] i.op = "Set" -> Continue([m EXCEPT !.main_register = i.ptr])
    [] i.op = "Deref8" -> exec_Deref(m, i.reg, 8)
    [] i.op = "Deref16" -> exec_Deref(m, i.reg, 16)
    [] i.op = "Deref32" -> exec_Deref(m, i.reg, 32)
    [] i.op = "Syscall" -> syscall(m, i.reg)
    [] i.op = "CopyCodeMemory" -> exec_CopyCodeMemory(m, i.source, i.size)
    [] i.op = "Swap" -> exec_Swap(m, i.reg)
    [] i.op = "Write8" -> exec_Write(m, i.reg, 8)
    [] i.op = "Write16" -> exec_Write(m, i.reg, 16)
    [] i.op = "Write32" -> exec_Write(m, i.reg, 32)
    [] i.op = "ReadStackPointer" -> Continue([m EXCEPT !.main_register = m.stack_pointer])
    [] i.op = "WriteStackPointer" -> Continue([m EXCEPT !.stack_pointer = m.main_register])
    [] i.op = "Jump" -> Continue([m EXCEPT !.instruction_pointer = i.ptr])
    [] i.op = "Call" -> exec_Call(m, i.ptr)
    [] i.op = "Return" -> exec_Return(m)
    [] i.op \in {"Increment", "Decrement"} -> exec_Step1(m, i.op)
    [] i.op \in {"Add", "Sub", "Mul"} -> exec_Arith(m, i.op, i.reg)
    [] i.op = "Compare" -> exec_Compare(m, i.reg)
    [] i.op \in {"JumpEqual", "JumpNotEqual", "JumpGreater", "JumpLess",
                 "JumpGreaterEqual", "JumpLessEqual", "JumpZero", "JumpNonzero"}
       -> exec_JumpIf(m, i.op, i.ptr)
    [] i.op = "Push" -> exec_Push(m)
    [] i.op = "Pop" -> exec_Pop(m)
    [] i.op = "PushRegister" -> exec_PushRegister(m, i.reg)
    [] i.op = "PopRegister" -> exec_PopRegister(m, i.reg)
    [] i.op = "Div" -> exec_Div(m, i.reg)
    [] i.op \in {"IncrementRegister", "DecrementRegister"}
       -> exec_StepRegister(m, i.op, i.reg)
    [] i.op = "SetRegister" -> exec_SetRegister(m, i.reg, i.value)

\* A fetch that decodes a Halt when the instruction pointer is at the end.
fetch_halt_at_end(m) ==
  LET code == GetFrom(m.program, m.instruction_pointer) IN
  IF ~code.ok THEN Err("Instruction pointer is outside of program code")
  ELSE IF code.v = <<>> THEN Ok(Nullary("Halt"))
  ELSE LET instruction == parse(code.v) IN
       IF ~instruction.ok THEN Err("Failed parsing instruction") ELSE instruction

\* self.program.get(native_ptr(self.instruction_pointer)..) and the decode.
fetch(m) ==
  LET code == GetFrom(m.program, m.instruction_pointer) IN
  IF ~code.ok THEN Err("Instruction pointer is outside of program code")
  ELSE LET instruction == parse(code.v) IN
       IF ~instruction.ok THEN Err("Failed parsing instruction") ELSE instruction

\* The instruction pointer moved on by the opcode byte alone.
advance_one_byte(m, instruction) ==
  [m EXCEPT !.instruction_pointer = wrapping_add(@, W(1))]

\* The instruction pointer left where the instruction starts.
advance_not(m, instruction) == m

\* self.instruction_pointer += vm_ptr(instruction.size())
advance(m, instruction) ==
  [m EXCEPT !.instruction_pointer = wrapping_add(@, vm_ptr(size(instruction).v))]

\* Machine::step: the Machine after the call, its result, and the instruction
\* it decoded (when it decoded one).
step(m) ==
  LET f == fetch(m) IN
  IF ~f.ok THEN [m |-> m, res |-> f, instr |-> Nullary("none")]
  ELSE LET e == execute(advance(m, f.v), f.v) IN
       [m |-> e.m, res |-> e.res, instr |-> f.v]

\* run()'s loop condition taken as always true.
run_continues_always(res) == TRUE

\* Machine::run: `while self.step()? {}` goes round again exactly when the
\* step returned Ok(true).
run_continues(res) == res.ok /\ res.v

\* ================================================================== state
\* The codec under test: an Instruction value, where the round trip stands,
\* and what size(), bytes() and parse() returned.
VARIABLES c_instr, c_pc, c_size, c_bytes, c_parsed, c_code
\* The Program being built: its instructions; the last builder call (its name,
\* the index it was to patch, its result) and the instructions before it.
VARIABLES instructions, b_last, b_prev
\* A call of Program::from_str: the lines of its input, the line its first loop
\* stands at, its locals, what it returned, and its last round on a line (the
\* line's number, the locals before it and what the round made of them); and
\* where the main() of an example stands that parses, compiles and runs.
VARIABLES a_input, a_pos, a_state, a_result, a_last, a_pc
\* The Machine's fields, and what it has printed.
VARIABLES program, memory, instruction_pointer, stack_pointer, main_register,
          side_registers, flag_zero, flag_comparison, output
\* The Machine's caller: whether a run() call is in progress and what run()
\* last returned; the last call on the Machine, a step() call (made directly or
\* by run()) or the entry into run(): who made it, the instruction pointer
\* before it, the instruction it decoded, its result, how many step() calls
\* there have been, whether an earlier step() call had returned false or an
\* error, and the saved word it took off the stack; the Machine before that
\* call; the arguments of Machine::new; and the words saved on the stack that
\* are still there to be restored, oldest first.
VARIABLES run_active, run_result, m_last, m_pre, m_new, frames

vars_codec == <<c_instr, c_pc, c_size, c_bytes, c_parsed, c_code>>
vars_from_str == <<a_input, a_pos, a_state, a_result, a_last, a_pc>>
vars_builder == <<instructions, b_last, b_prev, vars_from_str>>
vars_fields == <<program, memory, instruction_pointer, stack_pointer, main_register,
                 side_registers, flag_zero, flag_comparison, output>>
vars_caller == <<run_active, run_result, m_last, m_pre, m_new, frames>>
vars_machine == <<vars_fields, vars_caller>>
vars == <<vars_codec, vars_builder, vars_machine>>

NotCalled == Err("not called")
NoIndex == 0 - 1

\* The parts of the state a specification does not use stay as they start.
IdleCodec ==
  /\ c_instr = Nullary("Nop") /\ c_pc = "idle"
  /\ c_size = NotCalled /\ c_bytes = NotCalled /\ c_parsed = NotCalled
  /\ c_code = <<>>
NoLine == [line |-> 0, pre |-> FromStrNew, res |-> NotCalled]
IdleFromStr ==
  /\ a_input = <<>> /\ a_pos = 1 /\ a_state = FromStrNew
  /\ a_result = NotCalled /\ a_last = NoLine /\ a_pc = "idle"
IdleBuilder ==
  /\ instructions = <<>> /\ b_prev = <<>>
  /\ b_last = [op |-> "new", index |-> NoIndex, res |-> Ok("unit"), again |-> FALSE]
  /\ IdleFromStr
Machine ==
  [program |-> program, memory |-> memory,
   instruction_pointer |-> instruction_pointer, stack_pointer |-> stack_pointer,
   main_register |-> main_register, side_registers |-> side_registers,
   flag_zero |-> flag_zero, flag_comparison |-> flag_comparison, output |-> output]
MachineIs(m) ==
  /\ program = m.program /\ memory = m.memory
  /\ instruction_pointer = m.instruction_pointer /\ stack_pointer = m.stack_pointer
  /\ main_register = m.main_register /\ side_registers = m.side_registers
  /\ flag_zero = m.flag_zero /\ flag_comparison = m.flag_comparison
  /\ output = m.output
NoFrame == [kind |-> "none"]
NoCall ==
  [by |-> "none", at |-> W(0), instr |-> Nullary("none"), res |-> NotCalled,
   n |-> 0, after_end |-> FALSE, popped |-> NoFrame]
IdleMachine ==
  /\ MachineIs(MachineNew(<<>>, W(0), 0))
  /\ run_active = FALSE /\ run_result = NotCalled
  /\ m_last = NoCall /\ m_pre = MachineNew(<<>>, W(0), 0)
  /\ m_new = [program |-> <<>>, memory_size |-> W(0), side_regs |-> 0]
  /\ frames = <<>>

\* ------------------------------------------------------- the codec's checks
\* Byte strings of length at most n over the bytes of s.
RECURSIVE ByteSeqs(_, _)
ByteSeqs(s, n) ==
  IF n = 0 THEN {<<>>}
  ELSE ByteSeqs(s, n - 1) \cup {Append(b, x) : b \in ByteSeqs(s, n - 1), x \in s}

\* Operand values the Instruction values are drawn with.
CodecWords == {W(0), W(1), W(258), <<1, 2>>, <<258, 772>>, VmPtrMAX}
CodecRegs == {0, 1, 255}
CodecPayloads == ByteSeqs({0, 14, 255}, MaxData)
CodecLens == {W(n) : n \in 0..(MaxData + 1)} \cup {VmPtrMAX}

\* Every variant of the enum, with operands from the sets above.  A Data value
\* is any pair of a length and a payload: the enum's fields are public.
CodecInstructions ==
  LET ops(lay) == {ParseTable[k][1] : k \in {j \in 1..Len(ParseTable) : ParseTable[j][2] = lay}}
  IN  {Nullary(op) : op \in ops("none")}
      \cup {WithPtr(op, w) : op \in ops("ptr"), w \in CodecWords}
      \cup {WithReg(op, r) : op \in ops("reg"), r \in CodecRegs}
      \cup {CopyCodeMemory(s, n) : s \in CodecWords, n \in CodecWords}
      \cup {Data(n, d) : n \in CodecLens, d \in CodecPayloads}
      \cup {SetRegister(r, w) : r \in CodecRegs, w \in CodecWords}

InitCodec ==
  /\ c_instr \in CodecInstructions
  /\ c_pc = "new"
  /\ c_size = NotCalled /\ c_bytes = NotCalled /\ c_parsed = NotCalled
  /\ c_code = <<>>
  /\ IdleBuilder /\ IdleMachine

\* i.size() and i.bytes()
Encode ==
  /\ c_pc = "new"
  /\ c_size' = size(c_instr)
  /\ c_bytes' = bytes(c_instr)
  /\ c_pc' = "encoded"
  /\ UNCHANGED <<c_instr, c_parsed, c_code, vars_builder, vars_machine>>

\* Instruction::parse(&bytes), when bytes() returned
Decode ==
  /\ c_pc = "encoded"
  /\ c_bytes.ok
  /\ c_parsed' = parse(c_bytes.v)
  /\ c_pc' = "decoded"
  /\ UNCHANGED <<c_instr, c_size, c_bytes, c_code, vars_builder, vars_machine>>

\* Byte buffers a caller can hand to parse: the encoding cut short, followed
\* by more bytes, or under another opcode.
CodeTails == ByteSeqs({0, 255}, MaxData)
CodeOpcodes == {0, 8, 9, 13, 14, 45, 46, 255}
Codes(encoded) ==
  {SubSeq(encoded, 1, k) : k \in 0..Len(encoded)}
  \cup {encoded \o t : t \in CodeTails}
  \cup {<<x>> \o Tail(encoded) : x \in CodeOpcodes}
  \cup {<<x>> \o SubSeq(encoded, 2, Len(encoded) - 1) : x \in CodeOpcodes}

\* Instruction::parse(code) on any such buffer
ParseCode ==
  /\ c_pc = "encoded"
  /\ c_bytes.ok
  /\ \E code \in Codes(c_bytes.v) :
       /\ c_code' = code
       /\ c_parsed' = parse(code)
  /\ c_pc' = "parsed"
  /\ UNCHANGED <<c_instr, c_size, c_bytes, vars_builder, vars_machine>>

NextCodec == Encode \/ Decode \/ ParseCode
SpecCodec == InitCodec /\ [][NextCodec]_vars

\* ------------------------------------------------------ building a Program
\* What add_instruction and add_data are called with, the add_<jump> functions
\* called (rows of JumpFns), and the indices handed to the operations that take
\* one (MaxInstrs is never a valid index).
BuilderInstructions == {Nullary("Nop")}
BuilderPayloads == {<<>>, <<72, 0>>}
BuilderFns == {1, 10}
BuilderIndices == 0..MaxInstrs

InitBuilder ==
  /\ instructions = <<>> /\ b_prev = <<>>
  /\ b_last = [op |-> "new", index |-> NoIndex, res |-> Ok("unit"), again |-> FALSE]
  /\ IdleFromStr /\ IdleCodec /\ IdleMachine

\* A builder call.  The Program becomes the one the call leaves, and stays as
\* it was when the call returns an error.  A failed call leaves the Program as
\* it was, so what can be built after it can be built without it: the model
\* follows the caller that stops at the first error, as from_str does.
\* b_last holds the call's name, the index it patched (when it patched one),
\* its result, and `again`: whether it is a replace_dummy_address of the index
\* that the call before it has just patched.
Called(op, index, result) ==
  /\ b_last.res.ok
  /\ \E r \in {result} :
       /\ b_prev' = instructions
       /\ b_last' = [op |-> op, index |-> IF r.ok THEN index ELSE NoIndex,
                     res |-> IF r.ok THEN Ok(r.v) ELSE r,
                     again |-> /\ op = "replace_dummy_address"
                               /\ b_last.op = "replace_dummy_address"
                               /\ b_last.index = index]
       /\ instructions' = IF r.ok THEN r.p ELSE instructions
  /\ UNCHANGED <<vars_from_str, vars_codec, vars_machine>>

HasRoom == Len(instructions) < MaxInstrs

AddInstruction ==
  \E i \in BuilderInstructions :
    HasRoom /\ Called("add_instruction", NoIndex, add_instruction(instructions, i))

AddData ==
  \E d \in BuilderPayloads :
    HasRoom /\ Called("add_data", NoIndex, add_data(instructions, d))

AddCopyData ==
  \E for_data_index \in BuilderIndices :
    HasRoom /\ Called("add_copy_data", NoIndex, add_copy_data(instructions, for_data_index))

AddDummyCopyData ==
  HasRoom /\ Called("add_dummy_copy_data", NoIndex, add_dummy_copy_data(instructions))

AddJump ==
  \E fn \in BuilderFns, index \in BuilderIndices :
    HasRoom /\ Called(JumpFns[fn][1], NoIndex, add_jump(instructions, fn, index))

AddDummyJump ==
  \E fn \in BuilderFns :
    HasRoom /\ Called("add_dummy_jump", NoIndex, add_dummy_jump(instructions, fn))

ReplaceDummyAddress ==
  \E index \in BuilderIndices, jump_index \in BuilderIndices :
    /\ instructions # <<>>
    /\ Called("replace_dummy_address", index,
              replace_dummy_address(instructions, index, jump_index))

ReplaceDummyCopyData ==
  \E index \in BuilderIndices, data_index \in BuilderIndices :
    /\ instructions # <<>>
    /\ Called("replace_dummy_copy_data", index,
              replace_dummy_copy_data(instructions, index, data_index))

\* program.compile(): takes &self, returns the bytes.
Compile ==
  Called("compile", NoIndex, Done(instructions, compile(instructions)))

NextBuilder ==
  \/ AddInstruction
  \/ AddData
  \/ AddCopyData
  \/ AddDummyCopyData
  \/ AddJump
  \/ AddDummyJump
  \/ ReplaceDummyAddress
  \/ ReplaceDummyCopyData
  \/ Compile
SpecBuilder == InitBuilder /\ [][NextBuilder]_vars

\* ---------------------------------------------------- assembling a source
\* The sources handed to from_str, as input.lines() yields them: a sequence of
\* lines, each the sequence of its characters.
\* PROGRAM of examples/asm_function.rs
AsmFunctionSource == <<
  <<>>,
  <<"/", "/", " ", "J", "u", "m", "p", " ", "s", "t", "r", "a", "i", "g", "h", "t", " ", "t",
    "o", " ", "t", "h", "e", " ", "m", "a", "i", "n", " ", "f", "u", "n", "c", "t", "i", "o",
    "n", ".">>,
  <<"j", "u", "m", "p", " ", "m", "a", "i", "n">>,
  <<>>,
  <<"/", "/", " ", "D", "a", "t", "a", " ", "s", "e", "g", "m", "e", "n", "t", " ", "t", "o",
    " ", "h", "o", "l", "d", " ", "o", "u", "r", " ", "s", "t", "r", "i", "n", "g", ".">>,
  <<"l", "a", "b", "e", "l", " ", "d", "a", "t", "a">>,
  <<"d", "a", "t", "a", "S", "t", "r", "i", "n", "g", " ", "H", "e", "l", "l", "o", " ", "w",
    "o", "r", "l", "d", "!">>,
  <<>>,
  <<"/", "/", " ", "F", "u", "n", "c", "t", "i", "o", "n", " ", "t", "o", " ", "p", "r", "i",
    "n", "t", " ", "t", "h", "e", " ", "s", "t", "r", "i", "n", "g", ".">>,
  <<"l", "a", "b", "e", "l", " ", "f", "u", "n", "c", "t", "i", "o", "n">>,
  <<"/", "/", " ", "S", "e", "t", " ", "t", "h", "e", " ", "m", "a", "i", "n", " ", "r", "e",
    "g", "i", "s", "t", "e", "r", " ", "t", "o", " ", "0", " ", "t", "o", " ", "p", "o", "i",
    "n", "t", " ", "t", "o", " ", "t", "h", "e", " ", "a", "d", "d", "r", "e", "s", "s", " ",
    "w", "e", " ", "w", "a", "n", "t", " ", "t", "o", " ", "w", "r", "i", "t", "e", " ", "t",
    "h", "e", " ", "s", "t", "r", "i", "n", "g", " ", "t", "o", ".">>,
  <<"s", "e", "t", " ", "0">>,
  <<"/", "/", " ", "L", "o", "a", "d", " ", "t", "h", "e", " ", "d", "a", "t", "a", " ", "s",
    "e", "g", "m", "e", "n", "t", " ", "i", "n", "t", "o", " ", "m", "a", "c", "h", "i", "n",
    "e", " ", "m", "e", "m", "o", "r", "y", " ", "a", "t", " ", "t", "h", "e", " ", "a", "d",
    "d", "r", "e", "s", "s", " ", "i", "n", " ", "t", "h", "e", " ", "m", "a", "i", "n", " ",
    "r", "e", "g", "i", "s", "t", "e", "r", ".">>,
  <<"c", "o", "p", "y", "C", "o", "d", "e", "M", "e", "m", "o", "r", "y", " ", "d", "a", "t",
    "a">>,
  <<"/", "/", " ", "C", "a", "l", "l", " ", "s", "y", "s", "c", "a", "l", "l", " ", "0", " ",
    "(", "p", "r", "i", "n", "t", "l", "n", ")", ".", " ", "R", "e", "a", "d", "s", " ", "t",
    "h", "e", " ", "s", "t", "r", "i", "n", "g", " ", "f", "r", "o", "m", " ", "t", "h", "e",
    " ", "a", "d", "d", "r", "e", "s", "s", " ", "i", "n", " ", "t", "h", "e", " ", "m", "a",
    "i", "n", " ", "r", "e", "g", "i", "s", "t", "e", "r", ".">>,
  <<"s", "y", "s", "c", "a", "l", "l", " ", "0">>,
  <<"/", "/", " ", "R", "e", "t", "u", "r", "n", " ", "f", "r", "o", "m", " ", "t", "h", "e",
    " ", "f", "u", "n", "c", "t", "i", "o", "n", ".">>,
  <<"r", "e", "t", "u", "r", "n">>,
  <<>>,
  <<"/", "/", " ", "M", "a", "i", "n", " ", "f", "u", "n", "c", "t", "i", "o", "n", ".">>,
  <<"l", "a", "b", "e", "l", " ", "m", "a", "i", "n">>,
  <<"/", "/", " ", "C", "a", "l", "l", " ", "t", "h", "e", " ", "f", "u", "n", "c", "t", "i",
    "o", "n", " ", "5", " ", "t", "i", "m", "e", "s", ".">>,
  <<"c", "a", "l", "l", " ", "f", "u", "n", "c", "t", "i", "o", "n">>,
  <<"c", "a", "l", "l", " ", "f", "u", "n", "c", "t", "i", "o", "n">>,
  <<"c", "a", "l", "l", " ", "f", "u", "n", "c", "t", "i", "o", "n">>,
  <<"c", "a", "l", "l", " ", "f", "u", "n", "c", "t", "i", "o", "n">>,
  <<"c", "a", "l", "l", " ", "f", "u", "n", "c", "t", "i", "o", "n">>,
  <<>>,
  <<"/", "/", " ", "H", "a", "l", "t", " ", "t", "h", "e", " ", "m", "a", "c", "h", "i", "n",
    "e", ".">>,
  <<"h", "a", "l", "t">>
>>
\* PROGRAM of examples/fibonacci.rs
FibonacciSource == <<
  <<>>,
  <<"#", " ", "S", "t", "a", "r", "t", " ", "f", "r", "o", "m", " ", "m", "a", "i", "n", ".">>,
  <<"j", "u", "m", "p", " ", "m", "a", "i", "n">>,
  <<>>,
  <<"#", " ", "F", "u", "n", "c", "t", "i", "o", "n", ":", " ", "F", "i", "b", "o", "n", "a",
    "c", "c", "i", " ", "(", "r", "e", "c", "u", "r", "s", "i", "v", "e", ")", ".">>,
  <<"#", " ", "C", "o", "m", "p", "u", "t", "e", "s", " ", "t", "h", "e", " ", "f", "i", "b",
    "o", "n", "a", "c", "c", "i", " ", "n", "u", "m", "b", "e", "r", " ", "o", "f", " ", "t",
    "h", "e", " ", "v", "a", "l", "u", "e", " ", "i", "n", " ", "t", "h", "e", " ", "m", "a",
    "i", "n", " ", "r", "e", "g", "i", "s", "t", "e", "r", ".">>,
  <<"#", " ", "R", "e", "t", "u", "r", "n", "s", " ", "t", "h", "e", " ", "r", "e", "s", "u",
    "l", "t", " ", "i", "n", " ", "t", "h", "e", " ", "m", "a", "i", "n", " ", "r", "e", "g",
    "i", "s", "t", "e", "r", ".">>,
  <<"#", " ", "M", "o", "d", "i", "f", "i", "e", "s", " ", "t", "h", "e", " ", "s", "i", "d",
    "e", " ", "r", "e", "g", "i", "s", "t", "e", "r", "s", " ", "0", " ", "a", "n", "d", " ",
    "1", ".">>,
  <<"l", "a", "b", "e", "l", " ", "f", "i", "b", "o", "n", "a", "c", "c", "i">>,
  <<"#", " ", "I", "f", " ", "n", " ", "<", " ", "2", ",", " ", "r", "e", "t", "u", "r", "n",
    " ", "1", ".">>,
  <<"s", "e", "t", "R", "e", "g", "i", "s", "t", "e", "r", " ", "0", " ", "2">>,
  <<"c", "o", "m", "p", "a", "r", "e", " ", "0">>,
  <<"j", "u", "m", "p", "G", "r", "e", "a", "t", "e", "r", " ", "f", "i", "b", "o", "n", "a",
    "c", "c", "i", "_", "c", "o", "n", "t", "i", "n", "u", "e">>,
  <<"s", "e", "t", " ", "1">>,
  <<"r", "e", "t", "u", "r", "n">>,
  <<"l", "a", "b", "e", "l", " ", "f", "i", "b", "o", "n", "a", "c", "c", "i", "_", "c", "o",
    "n", "t", "i", "n", "u", "e">>,
  <<"#", " ", "O", "t", "h", "e", "r", "w", "i", "s", "e", " ", "A", "d", "d", " ", "f", "i",
    "b", "o", "n", "a", "c", "c", "i", "(", "n", "-", "1", ")", " ", "+", " ", "f", "i", "b",
    "o", "n", "a", "c", "c", "i", "(", "n", "-", "2", ")", ".">>,
  <<"d", "e", "c", "r", "e", "m", "e", "n", "t">>,
  <<"p", "u", "s", "h">>,
  <<"c", "a", "l", "l", " ", "f", "i", "b", "o", "n", "a", "c", "c", "i">>,
  <<"s", "w", "a", "p", " ", "1">>,
  <<"p", "o", "p">>,
  <<"p", "u", "s", "h", "R", "e", "g", "i", "s", "t", "e", "r", " ", "1">>,
  <<"d", "e", "c", "r", "e", "m", "e", "n", "t">>,
  <<"c", "a", "l", "l", " ", "f", "i", "b", "o", "n", "a", "c", "c", "i">>,
  <<"p", "o", "p", "R", "e", "g", "i", "s", "t", "e", "r", " ", "1">>,
  <<"a", "d", "d", " ", "1">>,
  <<"r", "e", "t", "u", "r", "n">>,
  <<>>,
  <<"#", " ", "F", "u", "n", "c", "t", "i", "o", "n", ":", " ", "P", "r", "i", "n", "t", " ",
    "n", "u", "m", "b", "e", "r", " ", "o", "n", " ", "a", " ", "l", "i", "n", "e", ".">>,
  <<"#", " ", "D", "o", "e", "s", " ", "n", "o", "t", " ", "m", "o", "d", "i", "f", "y", " ",
    "t", "h", "e", " ", "r", "e", "g", "i", "s", "t", "e", "r", ",", " ", "b", "u", "t", " ",
    "s", "e", "t", "s", " ", "m", "e", "m", "o", "r", "y", "[", "0", "]", "=", "0", ".">>,
  <<"l", "a", "b", "e", "l", " ", "p", "r", "i", "n", "t", "_", "n", "u", "m", "b", "e", "r">>,
  <<"s", "y", "s", "c", "a", "l", "l", " ", "1">>,
  <<"p", "u", "s", "h">>,
  <<"s", "e", "t", " ", "0">>,
  <<"s", "t", "o", "r", "e", "8", " ", "0">>,
  <<"s", "y", "s", "c", "a", "l", "l", " ", "0">>,
  <<"p", "o", "p">>,
  <<"r", "e", "t", "u", "r", "n">>,
  <<>>,
  <<"#", " ", "M", "a", "i", "n", ":", " ", "G", "e", "t", " ", "f", "i", "b", "o", "n", "a",
    "c", "c", "i", " ", "n", "u", "m", "b", "e", "r", " ", "o", "f", " ", "1", "5", " ", "a",
    "n", "d", " ", "p", "r", "i", "n", "t", " ", "i", "t", ".", " ", "I", "t", " ", "i", "s",
    " ", "6", "1", "0", ".">>,
  <<"l", "a", "b", "e", "l", " ", "m", "a", "i", "n">>,
  <<"s", "e", "t", " ", "1", "5">>,
  <<"c", "a", "l", "l", " ", "f", "i", "b", "o", "n", "a", "c", "c", "i">>,
  <<"c", "a", "l", "l", " ", "p", "r", "i", "n", "t", "_", "n", "u", "m", "b", "e", "r">>,
  <<"h", "a", "l", "t">>
>>
\* PROGRAM of examples/asm_loop.rs
AsmLoopSource == <<
  <<>>,
  <<"#", " ", "S", "e", "t", " ", "m", "a", "i", "n", " ", "r", "e", "g", "i", "s", "t", "e",
    "r", " ", "t", "o", " ", "5", ".">>,
  <<"s", "e", "t", " ", "5">>,
  <<>>,
  <<"/", "/", " ", "S", "t", "a", "r", "t", " ", "t", "h", "e", " ", "f", "o", "r", " ", "l",
    "o", "o", "p", ".">>,
  <<"l", "a", "b", "e", "l", " ", "f", "o", "r", "_", "l", "o", "o", "p">>,
  <<"/", "/", " ", "P", "r", "i", "n", "t", " ", "t", "h", "e", " ", "c", "u", "r", "r", "e",
    "n", "t", " ", "v", "a", "l", "u", "e", ".">>,
  <<"s", "y", "s", "c", "a", "l", "l", " ", "1">>,
  <<"/", "/", " ", "D", "e", "c", "r", "e", "m", "e", "n", "t", " ", "v", "a", "l", "u", "e",
    ",", " ", "s", "e", "t", "t", "i", "n", "g", " ", "t", "h", "e", " ", "z", "e", "r", "o",
    " ", "f", "l", "a", "g", ".">>,
  <<"d", "e", "c", "r", "e", "m", "e", "n", "t">>,
  <<"/", "/", " ", "J", "u", "m", "p", " ", "t", "o", " ", "t", "h", "e", " ", "s", "t", "a",
    "r", "t", " ", "o", "f", " ", "t", "h", "e", " ", "l", "o", "o", "p", " ", "i", "f", " ",
    "t", "h", "e", " ", "v", "a", "l", "u", "e", " ", "i", "s", " ", "n", "o", "t", " ", "z",
    "e", "r", "o", ".">>,
  <<"j", "u", "m", "p", "N", "o", "n", "z", "e", "r", "o", " ", "f", "o", "r", "_", "l", "o",
    "o", "p">>,
  <<>>,
  <<"#", " ", "P", "r", "i", "n", "t", " ", "e", "m", "p", "t", "y", " ", "s", "t", "r", "i",
    "n", "g", " ", "f", "o", "r", " ", "n", "e", "w", "l", "i", "n", "e", ".">>,
  <<"s", "e", "t", " ", "0">>,
  <<"s", "t", "o", "r", "e", "8", " ", "0">>,
  <<"s", "y", "s", "c", "a", "l", "l", " ", "0">>,
  <<>>,
  <<"#", " ", "H", "a", "l", "t", " ", "t", "h", "e", " ", "m", "a", "c", "h", "i", "n", "e",
    ".">>,
  <<"h", "a", "l", "t">>
>>
\* PROGRAM of examples/asm_hello_world.rs
AsmHelloWorldSource == <<
  <<>>,
  <<"#", " ", "A", "d", "d", " ", "d", "a", "t", "a", " ", "s", "e", "g", "m", "e", "n", "t",
    " ", "t", "o", " ", "h", "o", "l", "d", " ", "o", "u", "r", " ", "s", "t", "r", "i", "n",
    "g", ".">>,
  <<"l", "a", "b", "e", "l", " ", "s", "t", "r">>,
  <<"d", "a", "t", "a", "S", "t", "r", "i", "n", "g", " ", "H", "e", "l", "l", "o", " ", "w",
    "o", "r", "l", "d", "!">>,
  <<>>,
  <<"#", " ", "S", "e", "t", " ", "t", "h", "e", " ", "m", "a", "i", "n", " ", "r", "e", "g",
    "i", "s", "t", "e", "r", " ", "t", "o", " ", "1", "0", " ", "t", "o", " ", "p", "o", "i",
    "n", "t", " ", "t", "o", " ", "t", "h", "e", " ", "a", "d", "d", "r", "e", "s", "s", " ",
    "w", "e", " ", "w", "a", "n", "t", " ", "t", "o", " ", "w", "r", "i", "t", "e", " ", "t",
    "h", "e", " ", "s", "t", "r", "i", "n", "g", " ", "t", "o", ".">>,
  <<"s", "e", "t", " ", "1", "0">>,
  <<"#", " ", "L", "o", "a", "d", " ", "t", "h", "e", " ", "d", "a", "t", "a", " ", "s", "e",
    "g", "m", "e", "n", "t", " ", "i", "n", "t", "o", " ", "m", "a", "c", "h", "i", "n", "e",
    " ", "m", "e", "m", "o", "r", "y", " ", "a", "t", " ", "t", "h", "e", " ", "a", "d", "d",
    "r", "e", "s", "s", " ", "i", "n", " ", "t", "h", "e", " ", "m", "a", "i", "n", " ", "r",
    "e", "g", "i", "s", "t", "e", "r", ".">>,
  <<"c", "o", "p", "y", "C", "o", "d", "e", "M", "e", "m", "o", "r", "y", " ", "s", "t", "r">>,
  <<"#", " ", "C", "a", "l", "l", " ", "s", "y", "s", "c", "a", "l", "l", " ", "0", " ", "(",
    "p", "r", "i", "n", "t", "l", "n", ")", ".", " ", "R", "e", "a", "d", "s", " ", "t", "h",
    "e", " ", "s", "t", "r", "i", "n", "g", " ", "f", "r", "o", "m", " ", "t", "h", "e", " ",
    "a", "d", "d", "r", "e", "s", "s", " ", "i", "n", " ", "t", "h", "e", " ", "m", "a", "i",
    "n", " ", "r", "e", "g", "i", "s", "t", "e", "r", ".">>,
  <<"s", "y", "s", "c", "a", "l", "l", " ", "0">>,
  <<>>,
  <<"#", " ", "H", "a", "l", "t", " ", "t", "h", "e", " ", "m", "a", "c", "h", "i", "n", "e",
    ".">>,
  <<"h", "a", "l", "t">>
>>

\* Sources with one thing wrong or unusual each: argument counts, numbers out
\* of range, labels declared twice, late, in another case or not at all.
EdgeSources == {
  <<<<"d", "a", "t", "a", "S", "t", "r", "i", "n", "g", " ", "a", NulChar, "b">>,
    <<"h", "a", "l", "t">>>>,
  <<<<"n", "o", "p">>,
    <<"\t", " ", "D", "a", "t", "a", "S", "t", "r", "i", "n", "g", " ", "\t", "a", " ", " ",
      "b", "\t", "c", "\t", " ">>>>,
  <<<<"s", "e", "t", " ", "5", " ", "6">>>>,
  <<<<"n", "o", "p">>,
    <<"f", "r", "o", "b", " ", "1">>,
    <<"n", "o", "p">>>>,
  <<<<"/", "/", "n", "o", "t", "e">>,
    <<"h", "a", "l", "t">>>>,
  <<<<"/", "/", " ", "n", "o", "t", "e">>,
    <<"h", "a", "l", "t">>>>,
  <<<<"s", "e", "t", " ", "4", "2", "9", "4", "9", "6", "7", "2", "9", "5">>,
    <<"s", "e", "t", " ", "+", "7">>,
    <<"s", "e", "t", " ", "4", "2", "9", "4", "9", "6", "7", "2", "9", "6">>>>,
  <<<<"s", "w", "a", "p", " ", "2", "5", "5">>,
    <<"s", "w", "a", "p", " ", "2", "5", "6">>>>,
  <<<<"s", "e", "t", "R", "e", "g", "i", "s", "t", "e", "r", " ", "1", " ", "3", "0", "0">>,
    <<"s", "e", "t", "R", "e", "g", "i", "s", "t", "e", "r", " ", "1">>>>,
  <<<<"l", "a", "b", "e", "l">>>>,
  <<<<"l", "a", "b", "e", "l", " ", "a", " ", "b">>>>,
  <<<<"d", "a", "t", "a", "s", "t", "r", "i", "n", "g">>>>,
  <<<<"d", "a", "t", "a", "S", "t", "r", "i", "n", "g", " ", " ", "t", "w", "o", " ", " ", "w",
      "o", "r", "d", "s", " ">>,
    <<"h", "a", "l", "t", " ", "1">>>>,
  <<<<"j", "u", "m", "p", " ", "a">>,
    <<"l", "a", "b", "e", "l", " ", "a">>>>,
  <<<<"l", "a", "b", "e", "l", " ", "a">>,
    <<"n", "o", "p">>,
    <<"l", "a", "b", "e", "l", " ", "a">>,
    <<"d", "a", "t", "a", "S", "t", "r", "i", "n", "g", " ", "H", "i">>,
    <<"c", "a", "l", "l", " ", "a">>,
    <<"h", "a", "l", "t">>>>,
  <<<<"l", "a", "b", "e", "l", " ", "A">>,
    <<"n", "o", "p">>,
    <<"j", "u", "m", "p", " ", "a">>>>,
  <<<<"J", "U", "M", "P", " ", "a">>,
    <<"L", "A", "B", "E", "L", " ", "a">>,
    <<"H", "A", "L", "T">>>>,
  <<<<"c", "o", "p", "y", "C", "o", "d", "e", "M", "e", "m", "o", "r", "y", " ", "d">>,
    <<"j", "u", "m", "p", "L", "e", "s", "s", " ", "e">>,
    <<"l", "a", "b", "e", "l", " ", "d">>,
    <<"d", "a", "t", "a", "S", "t", "r", "i", "n", "g", " ", "H", "i">>,
    <<"l", "a", "b", "e", "l", " ", "e">>,
    <<"h", "a", "l", "t">>>>,
  <<<<"j", "u", "m", "p", " ", "a", " ", "b">>>>,
  <<<<"c", "a", "l", "l", " ", "f">>,
    <<"f", "r", "o", "b">>>>,
  <<<<"s", "e", "t", " ", "x">>>>,
  <<<<"\t", "p", "u", "s", "h", "\t">>,
    <<"p", "o", "p", " ", "1">>>>
}
\* The lines the generated sources are made of, and those sources: every
\* sequence of at most MaxLines of them.
SourceLines == {
  <<"l", "a", "b", "e", "l", " ", "a">>,
  <<"l", "a", "b", "e", "l", " ", "b">>,
  <<"j", "u", "m", "p", " ", "a">>,
  <<" ", " ", "J", "u", "m", "p", "N", "o", "n", "z", "e", "r", "o", " ", " ", "b">>,
  <<"d", "a", "t", "a", "S", "t", "r", "i", "n", "g", " ", "H", "i">>,
  <<"c", "o", "p", "y", "C", "o", "d", "e", "M", "e", "m", "o", "r", "y", " ", "a">>,
  <<"n", "o", "p">>,
  <<"#", " ", "n", "o", "t", "e">>,
  <<"#", "n", "o", "t", "e">>,
  <<>>
}
RECURSIVE LineSeqs(_, _)
LineSeqs(lines, n) ==
  IF n = 0 THEN {<<>>}
  ELSE LineSeqs(lines, n - 1) \cup {Append(s, l) : s \in LineSeqs(lines, n - 1), l \in lines}
Sources ==
  LineSeqs(SourceLines, MaxLines) \cup EdgeSources
  \cup {AsmFunctionSource, FibonacciSource, AsmLoopSource, AsmHelloWorldSource}

\* A caller calls from_str(input).
FromStrCalled(inputs) ==
  /\ a_input \in inputs
  /\ a_pos = 1 /\ a_state = FromStrNew
  /\ a_result = NotCalled /\ a_last = NoLine /\ a_pc = "from_str"
  /\ instructions = <<>> /\ b_prev = <<>>
  /\ b_last = [op |-> "new", index |-> NoIndex, res |-> Ok("unit"), again |-> FALSE]
  /\ IdleCodec /\ IdleMachine
InitFromStr == FromStrCalled(Sources)

\* One round of the first loop.  `?` and the return in the last arm end the
\* call with the error; the locals are dropped then, and kept here as they were.
ReadLine ==
  /\ a_pc = "from_str"
  /\ a_pos <= Len(a_input)
  /\ \E r \in {read_line(a_state, a_input[a_pos])} :
       /\ a_last' = [line |-> a_pos, pre |-> a_state, res |-> r]
       /\ a_state' = IF r.ok THEN r.v ELSE a_state
       /\ a_pos' = IF r.ok THEN a_pos + 1 ELSE a_pos
       /\ a_result' = IF r.ok THEN a_result ELSE r
       /\ a_pc' = IF r.ok THEN a_pc ELSE "returned"
  /\ UNCHANGED <<a_input, instructions, b_last, b_prev, vars_codec, vars_machine>>

\* What a round of a resolving loop leaves.
Patched(r) ==
  /\ a_state' = IF r.ok THEN r.v ELSE a_state
  /\ a_result' = IF r.ok THEN a_result ELSE r
  /\ a_pc' = IF r.ok THEN a_pc ELSE "returned"
  /\ UNCHANGED <<a_input, a_pos, a_last, instructions, b_last, b_prev, vars_codec,
                 vars_machine>>

\* One round of the loop over dummy_jumps, entered when the lines are read.
PatchJump ==
  /\ a_pc = "from_str"
  /\ a_pos > Len(a_input)
  /\ a_state.dummy_jumps # <<>>
  /\ \E r \in {patch_jump(a_state)} : Patched(r)

\* One round of the loop over dummy_copy_data, entered after the one above.
PatchCopy ==
  /\ a_pc = "from_str"
  /\ a_pos > Len(a_input)
  /\ a_state.dummy_jumps = <<>>
  /\ a_state.dummy_copy_data # <<>>
  /\ \E r \in {patch_copy(a_state)} : Patched(r)

\* Ok(program)
Return ==
  /\ a_pc = "from_str"
  /\ a_pos > Len(a_input)
  /\ a_state.dummy_jumps = <<>>
  /\ a_state.dummy_copy_data = <<>>
  /\ a_result' = Ok(a_state.program)
  /\ a_pc' = "returned"
  /\ UNCHANGED <<a_input, a_pos, a_state, a_last, instructions, b_last, b_prev,
                 vars_codec, vars_machine>>

NextFromStr == ReadLine \/ PatchJump \/ PatchCopy \/ Return
SpecFromStr == InitFromStr /\ [][NextFromStr]_vars

\* -------------------------------------------------------------- the Machine
\* The instructions of the generated stack programs.
StackAlphabet ==
  {Nullary("Push"), Nullary("Pop"), WithReg("PushRegister", 0),
   WithReg("PopRegister", 0), Nullary("Increment"), WithReg("Swap", 0)}

RECURSIVE InstrSeqs(_, _)
InstrSeqs(s, n) ==
  IF n = 0 THEN {<<>>}
  ELSE InstrSeqs(s, n - 1) \cup
       {Append(q, x) : q \in {r \in InstrSeqs(s, n - 1) : Len(r) = n - 1}, x \in s}

\* Machine::new's arguments: a compiled Program, the memory size, SIDE_REGS.
Config(p, memory_size, side_regs) ==
  [program |-> compile(p), memory_size |-> W(memory_size), side_regs |-> side_regs]

\* Nested calls: main calls f at 6, f calls g at 12.
ProgCalls ==
  <<WithPtr("Call", W(6)), Nullary("Halt"), WithPtr("Call", W(12)), Nullary("Return"),
    Nullary("Increment"), Nullary("Return")>>
\* Nested and consecutive saves of the main register and of side register 0.
ProgNested ==
  <<WithPtr("Set", <<258, 772>>), Nullary("Push"), Nullary("Increment"),
    WithReg("Swap", 0), WithReg("PushRegister", 0), Nullary("Push"),
    SetRegister(0, W(9)), Nullary("Pop"), WithReg("PopRegister", 0), Nullary("Pop"),
    Nullary("Halt")>>
\* A countdown loop.
ProgLoop ==
  <<WithPtr("Set", W(2)), Nullary("Decrement"), WithPtr("JumpNonzero", W(5)),
    Nullary("Halt")>>
\* A string copied out of the code and printed.
ProgCopy ==
  <<WithPtr("Jump", W(12)), Data(W(2), <<72, 0>>), CopyCodeMemory(W(10), W(2)),
    WithReg("Syscall", 0), Nullary("Halt")>>
\* Instructions after a Halt, and after a failing Pop.
ProgAfterHalt == <<Nullary("Halt"), Nullary("Increment"), Nullary("Push"), Nullary("Halt")>>
ProgAfterError == <<Nullary("Pop"), WithPtr("Set", W(7)), Nullary("Halt")>>
\* Writes at the border of the memory, and a stack pointer set past it.
ProgStore == <<WithPtr("Set", <<258, 772>>), WithPtr("Store32", W(6)), Nullary("Halt")>>
ProgStackOutside ==
  <<WithPtr("Set", W(10)), Nullary("WriteStackPointer"), Nullary("Push"), Nullary("Halt")>>
\* A saved word overwritten before it is restored.
ProgOverwrite ==
  <<WithPtr("Set", W(7)), Nullary("Push"), WithPtr("Store16", W(6)), Nullary("Pop"),
    Nullary("Halt")>>
\* Jumps out of the code, and code that ends without a Halt.
ProgJumpOut == <<WithPtr("Jump", W(100))>>
ProgJumpMax == <<Nullary("Nop"), WithPtr("JumpZero", VmPtrMAX)>>
ProgFallOff == <<Nullary("Increment"), Nullary("Nop")>>
ProgTruncated == <<WithPtr("Set", W(1)), Nullary("Return")>>

WrittenConfigs ==
  {Config(ProgCalls, 8, 0), Config(ProgCalls, 4, 0), Config(ProgCalls, 2, 0),
   Config(ProgNested, 12, 1), Config(ProgNested, 8, 1), Config(ProgNested, 12, 0),
   Config(ProgLoop, 0, 0), Config(ProgCopy, 8, 0), Config(ProgCopy, 1, 0),
   Config(ProgAfterHalt, 4, 0), Config(ProgAfterError, 0, 0),
   Config(ProgStore, 8, 0), Config(ProgStore, 10, 0), Config(ProgStackOutside, 8, 0),
   Config(ProgOverwrite, 8, 0), Config(ProgJumpOut, 0, 0), Config(ProgJumpMax, 0, 0),
   Config(ProgFallOff, 0, 0), Config(ProgTruncated, 4, 0)}

\* Wraparound of the main register and of side register 0.
ProgWrap ==
  <<WithPtr("Set", VmPtrMAX), Nullary("Increment"), Nullary("Decrement"),
    SetRegister(0, VmPtrMAX), WithReg("IncrementRegister", 0),
    WithReg("DecrementRegister", 0), Nullary("Halt")>>
\* Divisions: by side register 0, which holds 0, and by side register 1.
ProgDivZero ==
  <<WithPtr("Set", W(7)), SetRegister(1, W(5)), WithReg("Div", 0), Nullary("Halt")>>
ProgDiv ==
  <<WithPtr("Set", <<3, 7>>), SetRegister(1, W(5)), WithReg("Div", 1),
    WithReg("Mul", 1), WithReg("Div", 1), WithReg("Div", 1), Nullary("Halt")>>

ArithmeticConfigs ==
  {Config(ProgWrap, 0, 1), Config(ProgDivZero, 0, 2), Config(ProgDiv, 0, 2)}

\* Memory accesses of every width, at literal addresses and through side
\* register 0, inside the memory, across its end and far past it.
AccessAddrs ==
  {W(0), W(4), W(5), W(6), W(7), W(8), W(9), W(16), <<1, 0>>, <<1, 3>>,
   wrapping_sub(VmPtrMAX, W(2)), VmPtrMAX}
LiteralAccessOps == {"Load8", "Load16", "Load32", "Store8", "Store16", "Store32"}
RegisterAccessOps == {"Deref8", "Deref16", "Deref32", "Write8", "Write16", "Write32"}
LiteralAccess(op, addr) ==
  <<WithPtr("Set", <<258, 772>>), WithPtr("Store32", W(4)), WithPtr("Set", <<1286, 1800>>),
    WithPtr(op, addr), Nullary("Halt")>>
RegisterAccess(op, addr) ==
  <<WithPtr("Set", <<258, 772>>), WithPtr("Store32", W(4)), WithPtr("Set", <<1286, 1800>>),
    SetRegister(0, addr), WithReg(op, 0), Nullary("Halt")>>
AccessConfigs ==
  {Config(LiteralAccess(op, addr), 8, 0) : op \in LiteralAccessOps, addr \in AccessAddrs}
  \cup
  {Config(RegisterAccess(op, addr), 8, 1) : op \in RegisterAccessOps, addr \in AccessAddrs}

\* Saves and restores at the edges of the stack.
StackEdgeConfigs ==
  {Config(<<Nullary("Push"), Nullary("Halt")>>, 3, 0),
   Config(<<WithReg("PushRegister", 0), Nullary("Halt")>>, 2, 1),
   Config(<<WithReg("PushRegister", 0), Nullary("Halt")>>, 3, 0),
   Config(<<WithPtr("Call", W(0))>>, 6, 0),
   Config(<<WithPtr("Set", W(7)), Nullary("Return"), Nullary("Halt")>>, 8, 0),
   Config(<<WithPtr("Set", W(7)), Nullary("Pop"), Nullary("Halt")>>, 2, 1),
   Config(<<WithPtr("Set", W(7)), WithReg("PopRegister", 0), Nullary("Halt")>>, 8, 1),
   Config(<<WithPtr("Set", W(7)), WithReg("PopRegister", 1), Nullary("Halt")>>, 8, 1)}

\* Every instruction with a register operand, on Machines with side registers
\* and without, the operand in range and out of it.
RegisterOps ==
  {"Deref8", "Deref16", "Deref32", "Write8", "Write16", "Write32", "Swap", "Add",
   "Sub", "Mul", "Div", "Compare", "PushRegister", "PopRegister",
   "IncrementRegister", "DecrementRegister"}
RegisterOperand(op, reg) ==
  <<WithPtr("Set", W(5)), Nullary("Push"), Nullary("Decrement"), WithReg(op, reg),
    Nullary("Halt")>>
RegisterOperandSet(reg) ==
  <<WithPtr("Set", W(5)), Nullary("Push"), SetRegister(reg, W(3)), Nullary("Halt")>>
RegisterConfigs ==
  {Config(RegisterOperand(op, 0), 8, 0) : op \in RegisterOps}
  \cup {Config(RegisterOperand(op, 2), 8, 2) : op \in RegisterOps}
  \cup {Config(RegisterOperand(op, 255), 8, 2) : op \in RegisterOps}
  \cup {Config(RegisterOperand(op, 1), 8, 2) : op \in RegisterOps}
  \cup {Config(RegisterOperandSet(0), 8, 0), Config(RegisterOperandSet(2), 8, 2),
        Config(RegisterOperandSet(1), 8, 2)}

\* examples/loop.rs: loop_program(), on Machine::<0> with 1024 bytes.
ScenarioA ==
  LET set == add_instruction(<<>>, WithPtr("Set", W(5)))
      for_loop == add_instruction(set.p, WithReg("Syscall", 1))
      dec == add_instruction(for_loop.p, Nullary("Decrement"))
      jump == add_jump(dec.p, 10, for_loop.v)
      zero == add_instruction(jump.p, WithPtr("Set", W(0)))
      st == add_instruction(zero.p, WithPtr("Store8", W(0)))
      line == add_instruction(st.p, WithReg("Syscall", 0))
      halt == add_instruction(line.p, Nullary("Halt"))
  IN  halt.p
ScenarioAConfig == Config(ScenarioA, 1024, 0)

\* examples/hello_world.rs: hello_world_program(), on a Machine with the
\* default 4 side registers (0 in examples/asm_hello_world.rs) and 1024 bytes.
HelloWorld == <<72, 101, 108, 108, 111, 32, 119, 111, 114, 108, 100, 33>>
ScenarioB ==
  LET s == add_data(<<>>, HelloWorld \o <<0>>)
      set == add_instruction(s.p, WithPtr("Set", W(10)))
      copy == add_copy_data(set.p, s.v)
      line == add_instruction(copy.p, WithReg("Syscall", 0))
      halt == add_instruction(line.p, Nullary("Halt"))
  IN  halt.p
ScenarioBConfigs == {Config(ScenarioB, 1024, 4), Config(ScenarioB, 1024, 0)}

GeneratedConfigs == {Config(p, 8, 1) : p \in InstrSeqs(StackAlphabet, MaxSeq) \ {<<>>}}

\* A program cut short inside its last instruction's operand.
TruncatedConfig ==
  [program |-> SubSeq(compile(ProgLoop), 1, 3), memory_size |-> W(0), side_regs |-> 0]

\* Operand values of the arithmetic, comparing and copying instructions.
OperandWords == {W(0), W(1), W(2), W(3), <<1, 0>>, <<40000, 7>>, VmPtrMAX}
\* One arithmetic instruction on side register 1, side register 0 standing by.
OperandProgram(op, m, s) ==
  <<WithPtr("Set", m), SetRegister(0, W(9)), SetRegister(1, s), WithReg(op, 1),
    Nullary("Halt")>>
\* A Compare and a Decrement, then one conditional jump over a Halt (to 20).
FlagProgram(op, m, s) ==
  <<WithPtr("Set", m), SetRegister(0, s), WithReg("Compare", 0), Nullary("Decrement"),
    WithPtr(op, W(20)), Nullary("Halt"), Nullary("Increment"), Nullary("Halt")>>
\* A copy out of the 15 bytes of the program into a memory of 8 bytes.
CopyProgram(target, source, count) ==
  <<WithPtr("Set", target), CopyCodeMemory(source, count), Nullary("Halt")>>
InstructionConfigs ==
  {Config(OperandProgram(op, m, s), 0, 2) :
     op \in {"Add", "Sub", "Mul", "Div"}, m \in OperandWords, s \in OperandWords}
  \cup {Config(FlagProgram(op, m, s), 0, 1) :
     op \in {"JumpEqual", "JumpNotEqual", "JumpGreater", "JumpLess", "JumpGreaterEqual",
             "JumpLessEqual", "JumpZero", "JumpNonzero"},
     m \in {W(0), W(1), W(2), W(3), <<40000, 7>>}, s \in {W(2), <<1, 0>>}}
  \cup {Config(CopyProgram(target, source, count), 8, 0) :
     target \in {W(0), W(4), W(8), W(9), VmPtrMAX},
     source \in {W(0), W(6), W(15), W(16), VmPtrMAX},
     count \in {W(0), W(1), W(4), W(8), W(9), W(16), VmPtrMAX}}
  \cup {Config(<<WithPtr("Set", W(2)), Nullary("Decrement"), SetRegister(0, W(1)),
                 WithReg("Sub", 0), WithReg("Compare", 0), WithReg("Mul", 0),
                 WithPtr("Load8", W(0)), WithReg("Swap", 0), Nullary("Pop"),
                 Nullary("Halt")>>, 8, 1)}

\* A value stored and loaded back at once, at a literal address and through
\* side register 0, in a memory of 8 bytes holding 1..4 at 2..5.
RoundTripWidths == {8, 16, 32}
RoundTripAddrs == {W(0), W(3), W(4), W(5), W(7), W(8)}
RoundTripValues == {<<258, 772>>, <<40000, 65280>>, VmPtrMAX}
AccessName(kind, width) ==
  CASE width = 8 -> IF kind = "Load" THEN "Load8" ELSE IF kind = "Store" THEN "Store8"
                    ELSE IF kind = "Deref" THEN "Deref8" ELSE "Write8"
    [] width = 16 -> IF kind = "Load" THEN "Load16" ELSE IF kind = "Store" THEN "Store16"
                     ELSE IF kind = "Deref" THEN "Deref16" ELSE "Write16"
    [] width = 32 -> IF kind = "Load" THEN "Load32" ELSE IF kind = "Store" THEN "Store32"
                     ELSE IF kind = "Deref" THEN "Deref32" ELSE "Write32"
RoundTripLiteral(width, addr, value) ==
  <<WithPtr("Set", <<258, 772>>), WithPtr("Store32", W(2)), WithPtr("Set", value),
    WithPtr(AccessName("Store", width), addr), WithPtr(AccessName("Load", width), addr),
    Nullary("Halt")>>
RoundTripRegister(width, addr, value) ==
  <<WithPtr("Set", <<258, 772>>), WithPtr("Store32", W(2)), WithPtr("Set", value),
    SetRegister(1, addr), WithReg(AccessName("Write", width), 1),
    WithReg(AccessName("Deref", width), 1), Nullary("Halt")>>
RoundTripConfigs ==
  {Config(RoundTripLiteral(width, addr, value), 8, 2) :
     width \in RoundTripWidths, addr \in RoundTripAddrs, value \in RoundTripValues}
  \cup {Config(RoundTripRegister(width, addr, value), 8, 2) :
     width \in RoundTripWidths, addr \in RoundTripAddrs, value \in RoundTripValues}

Configs ==
  WrittenConfigs \cup GeneratedConfigs \cup {TruncatedConfig} \cup ArithmeticConfigs
    \cup AccessConfigs \cup StackEdgeConfigs \cup RegisterConfigs
    \cup {ScenarioAConfig} \cup ScenarioBConfigs \cup InstructionConfigs
    \cup RoundTripConfigs

InitMachine ==
  /\ \E c \in Configs :
       /\ MachineIs(MachineNew(c.program, c.memory_size, c.side_regs))
       /\ m_pre = MachineNew(c.program, c.memory_size, c.side_regs)
       /\ m_new = c
  /\ run_active = FALSE /\ run_result = NotCalled
  /\ m_last = NoCall
  /\ frames = <<>>
  /\ IdleCodec /\ IdleBuilder

\* A step() call that returned false or an error.
Ended(call) == call.by \in {"step", "run"} /\ (~call.res.ok \/ ~call.res.v)

\* The word a successful Push, PushRegister or Call at `at` saved, and where.
SavedFrame(m, at, instruction, after) ==
  [kind |-> instruction.op,
   reg |-> IF instruction.op = "PushRegister" THEN instruction.reg ELSE NoIndex,
   slot |-> after.stack_pointer,
   sp_before |-> m.stack_pointer,
   at |-> at,
   val |-> CASE instruction.op = "Push" -> m.main_register
             [] instruction.op = "PushRegister" -> m.side_registers[instruction.reg + 1]
             [] instruction.op = "Call" -> wrapping_add(at, W(1 + PtrSize))]

\* The saved words still on the stack after the step s made on Machine m.
next_frames(fs, m, s) ==
  IF s.res.ok /\ s.instr.op \in {"Push", "PushRegister", "Call"}
  THEN Append(fs, SavedFrame(m, m.instruction_pointer, s.instr, s.m))
  ELSE IF s.res.ok /\ s.instr.op \in {"Pop", "PopRegister", "Return"}
  THEN (IF fs = <<>> THEN <<>> ELSE SubSeq(fs, 1, Len(fs) - 1))
  ELSE IF s.m.memory = m.memory /\ s.m.stack_pointer = m.stack_pointer THEN fs
  ELSE <<>>

popped_frame(fs, s) ==
  IF s.res.ok /\ s.instr.op \in {"Pop", "PopRegister", "Return"} /\ fs # <<>>
  THEN fs[Len(fs)] ELSE NoFrame

\* One step() call on the Machine, made by `by`, while fewer than `limit` calls
\* have been made on it.
StepCallWithin(by, limit) ==
  \E s \in {step(Machine)} :
  /\ m_last.n < limit
  /\ program' = s.m.program /\ memory' = s.m.memory
  /\ instruction_pointer' = s.m.instruction_pointer
  /\ stack_pointer' = s.m.stack_pointer
  /\ main_register' = s.m.main_register /\ side_registers' = s.m.side_registers
  /\ flag_zero' = s.m.flag_zero /\ flag_comparison' = s.m.flag_comparison
  /\ output' = s.m.output
  /\ m_pre' = Machine
  /\ m_last' = [by |-> by, at |-> instruction_pointer, instr |-> s.instr, res |-> s.res,
                n |-> m_last.n + 1, after_end |-> m_last.after_end \/ Ended(m_last),
                popped |-> popped_frame(frames, s)]
  /\ frames' = next_frames(frames, Machine, s)
  /\ UNCHANGED m_new
StepCall(by) == StepCallWithin(by, MaxSteps)

\* The caller calls step() itself.
DirectStep ==
  /\ ~run_active
  /\ StepCall("step")
  /\ UNCHANGED <<run_active, run_result, vars_codec, vars_builder>>

\* The caller calls run(), which enters its loop.
RunCall ==
  /\ ~run_active
  /\ m_last.n < MaxSteps
  /\ run_active' = TRUE
  /\ run_result' = NotCalled
  /\ m_last' = [by |-> "enter", at |-> instruction_pointer, instr |-> Nullary("none"),
                res |-> NotCalled, n |-> m_last.n,
                after_end |-> m_last.after_end \/ Ended(m_last), popped |-> NoFrame]
  /\ m_pre' = Machine
  /\ UNCHANGED <<vars_fields, m_new, frames, vars_codec, vars_builder>>

\* One round of run()'s loop: a step() call, `?` on its result, and the test.
RunStepWithin(limit) ==
  /\ run_active
  /\ StepCallWithin("run", limit)
  /\ run_active' = run_continues(m_last'.res)
  /\ run_result' = IF ~m_last'.res.ok THEN m_last'.res
                   ELSE IF run_active' THEN NotCalled ELSE Ok("unit")
  /\ UNCHANGED <<vars_codec, vars_builder>>
RunStep == RunStepWithin(MaxSteps)

Next == DirectStep \/ RunCall \/ RunStep
Spec == InitMachine /\ [][Next]_vars

\* ------------------------------------------- examples/fibonacci.rs: main()
\* main() parses PROGRAM, compiles the Program, makes a Machine::<2> with 1024
\* bytes for the executable and runs it; an error of the parse ends it.
InitMain == FromStrCalled({FibonacciSource})

\* Machine::<2>::new(program.compile(), 1024)
MainNew ==
  /\ a_pc = "returned"
  /\ a_result.ok
  /\ a_pc' = "machine"
  /\ \E executable \in {compile(a_result.v)} :
       /\ program' = executable
       /\ memory' = MachineNew(executable, W(1024), 2).memory
       /\ instruction_pointer' = MachineNew(executable, W(1024), 2).instruction_pointer
       /\ stack_pointer' = MachineNew(executable, W(1024), 2).stack_pointer
       /\ main_register' = MachineNew(executable, W(1024), 2).main_register
       /\ side_registers' = MachineNew(executable, W(1024), 2).side_registers
       /\ flag_zero' = MachineNew(executable, W(1024), 2).flag_zero
       /\ flag_comparison' = MachineNew(executable, W(1024), 2).flag_comparison
       /\ output' = MachineNew(executable, W(1024), 2).output
       /\ m_pre' = MachineNew(executable, W(1024), 2)
       /\ m_new' = [program |-> executable, memory_size |-> W(1024), side_regs |-> 2]
  /\ UNCHANGED <<a_input, a_pos, a_state, a_result, a_last, instructions, b_last, b_prev,
                 run_active, run_result, m_last, frames, vars_codec>>

\* machine.run()
MainRun == a_pc = "machine" /\ RunCall
MainRunStep == a_pc = "machine" /\ RunStepWithin(MaxRunSteps)

NextMain == ReadLine \/ PatchJump \/ Return \/ MainNew \/ MainRun \/ MainRunStep
SpecMain == InitMain /\ [][NextMain]_vars

\* ================================================================== claims
ErrOf(r) == IF r.ok THEN "" ELSE r.err

\* ---- C1
\* A Data value is well formed when its length operand is its payload's length.
WellFormed(i) == i.op = "Data" => i.len = W(Len(i.data))

\* C1 as stated: for every Instruction value, whatever its operands, bytes()
\* returns, size() is the length of what it returns and parse() of it returns
\* the value.
C1_Original ==
  /\ c_pc # "new" => c_bytes.ok /\ c_size = Ok(Len(c_bytes.v))
  /\ c_pc = "decoded" => c_parsed = Ok(c_instr)

\* C1 amended: for every Instruction value whose Data length operand equals
\* the length of its payload, parse(i.bytes()) returns i and i.size() is the
\* length of i.bytes(); for a Data whose length operand differs from its
\* payload's length, size() and bytes() panic on their assertion.
C1_RoundTrip ==
  /\ (c_pc # "new" /\ WellFormed(c_instr)) => c_bytes.ok /\ c_size = Ok(Len(c_bytes.v))
  /\ (c_pc # "new" /\ ~WellFormed(c_instr)) => IsPanic(c_bytes) /\ IsPanic(c_size)
  /\ c_pc = "decoded" => c_parsed = Ok(c_instr)
  /\ (c_pc = "encoded" /\ WellFormed(c_instr)) => parse(c_bytes.v) = Ok(c_instr)

C1_Witness ==
  /\ c_pc = "decoded" /\ c_instr.op = "Data" /\ c_instr.data # <<>>
  /\ c_parsed = Ok(c_instr) /\ c_size = Ok(Len(c_bytes.v))

\* ---- C2
\* The sum of size() over the instructions at indices 0..k-1.
RECURSIVE SumSizes(_, _)
SumSizes(p, k) == IF k = 0 THEN 0 ELSE SumSizes(p, k - 1) + size(p[k]).v

\* C2: in every Program the builder reaches, resolve(k) is, for every valid
\* index k, the sum of size() over the instructions before k (0 for k = 0).
C2_ResolveIsSumOfSizes ==
  \A k \in 0..(Len(instructions) - 1) :
    /\ resolve(instructions, k).ok
    /\ resolve(instructions, k).v.addr = W(SumSizes(instructions, k))
    /\ resolve(instructions, k).v.instruction = instructions[k + 1]

C2_Witness ==
  /\ Len(instructions) = 3
  /\ instructions[1].op = "Data" /\ instructions[2].op = "Jump"
  /\ b_last.op = "replace_dummy_address" /\ b_last.res.ok
  /\ instructions[2].ptr = W(12)
  /\ resolve(instructions, 2).v.addr = W(12)

\* ---- C3
\* The jump, call and conditional-jump variants, as the builder emits them.
JumpCallOps == {JumpFns[k][2] : k \in 1..Len(JumpFns)}
\* A placeholder jump: one of those variants holding the sentinel address.
PlaceholderJump(i) == i.op \in JumpCallOps /\ i.ptr = VmPtrMAX
NotDummyJump == "Instruction is not a dummy jump or call"

\* C3 as stated: replace_dummy_address on an index that holds no placeholder
\* returns the 'not a dummy jump or call' error, whatever jump_index is.
C3_Original ==
  b_last.res.ok =>
    \A index \in 0..(Len(instructions) - 1), jump_index \in BuilderIndices :
      ~PlaceholderJump(instructions[index + 1]) =>
        ErrOf(replace_dummy_address(instructions, index, jump_index)) = NotDummyJump

\* C3 amended: replace_dummy_address on an index that holds no placeholder
\* fails and leaves the Program unchanged; the error is 'not a dummy jump or
\* call' when jump_index is a valid index, and 'Invalid jump index' otherwise.
C3_NonPlaceholderPatchFails ==
  /\ b_last.res.ok =>
       \A index \in 0..(Len(instructions) - 1), jump_index \in BuilderIndices :
         ~PlaceholderJump(instructions[index + 1]) =>
           ErrOf(replace_dummy_address(instructions, index, jump_index)) =
             IF jump_index < Len(instructions) THEN NotDummyJump ELSE "Invalid jump index"
  /\ (b_last.op = "replace_dummy_address" /\ ~b_last.res.ok) => instructions = b_prev

C3_Witness ==
  /\ b_last.op = "replace_dummy_address" /\ ErrOf(b_last.res) = NotDummyJump
  /\ instructions = b_prev
  /\ \E k \in 1..Len(instructions) :
       instructions[k].op = "JumpNonzero" /\ instructions[k].ptr # VmPtrMAX
  /\ \A k \in 1..Len(instructions) : ~PlaceholderJump(instructions[k])

\* ---- C4
\* C4: replace_dummy_copy_data on an index holding a CopyCodeMemory whose source
\* is not the sentinel fails and leaves the Program unchanged.
C4_PatchedCopyIsRejected ==
  b_last.res.ok =>
    \A index \in 0..(Len(instructions) - 1), data_index \in BuilderIndices :
      (instructions[index + 1].op = "CopyCodeMemory"
         /\ instructions[index + 1].source # VmPtrMAX) =>
        ~replace_dummy_copy_data(instructions, index, data_index).ok

\* ---- C5
\* C5 as stated: right after a successful replace_dummy_address(i, t), a
\* second replace_dummy_address(i, t2) with a valid t2 succeeds and leaves the
\* operand holding the address of t2 (the Program unchanged when that is the
\* address of t).
C5_Original ==
  (b_last.op = "replace_dummy_address" /\ b_last.res.ok) =>
    \A t2 \in 0..(Len(instructions) - 1) :
      LET r == replace_dummy_address(instructions, b_last.index, t2) IN
      /\ r.ok
      /\ r.p[b_last.index + 1].ptr = resolve(instructions, t2).v.addr

\* C5 amended: after a successful replace_dummy_address(i, t), a second
\* replace_dummy_address(i, t2) fails and leaves the Program unchanged, whether
\* or not t2 resolves to the address of t: with the 'not a dummy jump or call'
\* error for a valid t2, with 'Invalid jump index' otherwise.
C5_SecondPatchFails ==
  /\ (b_last.op = "replace_dummy_address" /\ b_last.res.ok) =>
       \A t2 \in BuilderIndices :
         ErrOf(replace_dummy_address(instructions, b_last.index, t2)) =
           IF t2 < Len(instructions) THEN NotDummyJump ELSE "Invalid jump index"
  /\ b_last.again =>
       /\ ErrOf(b_last.res) \in {NotDummyJump, "Invalid jump index"}
       /\ instructions = b_prev

C5_Witness ==
  /\ b_last.again /\ ErrOf(b_last.res) = NotDummyJump
  /\ instructions = b_prev
  /\ Len(instructions) >= 2

\* ---- C6
\* C6: in every reachable Machine state, after any step() calls, successful or
\* failing, the Executable's bytes are those the Machine was constructed with
\* and the working memory has the length chosen at construction.
C6_ExecutableAndMemorySizeFixed ==
  /\ program = m_new.program
  /\ Len(memory) = native_ptr(m_new.memory_size)

C6_Witness ==
  /\ m_last.instr.op = "Store32" /\ ~m_last.res.ok
  /\ memory # m_pre.memory
  /\ program = m_new.program /\ program # <<>>
  /\ Len(memory) = 8

\* ---- C7
StepCalls == {"step", "run"}

\* C7 as stated: once a step() call has returned false or an error, no later
\* step() call executes an instruction or changes any component of the Machine.
C7_Original ==
  (m_last.by \in StepCalls /\ m_last.after_end) =>
    /\ m_last.instr = Nullary("none")
    /\ Machine = m_pre

\* C7 amended: the Machine records no halted or failed state.  A step() call
\* made after a step() call returned false or an error decodes and executes the
\* instruction at the current instruction pointer as any other step() call
\* does; only run() stops: it makes no further step() call once one of its
\* step() calls has returned false or an error, and returns then.
C7_OnlyRunStops ==
  /\ run_active => \/ m_last.by = "enter"
                   \/ m_last.by = "run" /\ m_last.res = Ok(TRUE)
  /\ (m_last.by = "run" /\ ~run_active) => Ended(m_last)
  /\ m_last.by \in StepCalls =>
       step(m_pre) = [m |-> Machine, res |-> m_last.res, instr |-> m_last.instr]

C7_Witness ==
  /\ m_last.by = "step" /\ m_last.after_end
  /\ m_last.res = Ok(TRUE) /\ m_last.instr.op = "Increment"
  /\ main_register # m_pre.main_register
  /\ instruction_pointer # m_pre.instruction_pointer

\* ---- C8
AtOrPastEnd(ptr) == cmp(ptr, W(Len(program))) # "Less"

\* C8: step() returns false exactly when the instruction it executed is Halt;
\* run() returns success exactly when its last step() call executed Halt, and
\* the error of that call otherwise; a step() call made with the instruction
\* pointer at or past the end of the Executable fails with an error, decoding
\* nothing and changing nothing.
C8_FalseOnlyForHalt ==
  /\ m_last.by \in StepCalls =>
       ((m_last.res.ok /\ ~m_last.res.v) <=> m_last.instr.op = "Halt")
  /\ (m_last.by = "run" /\ ~run_active) =>
       /\ run_result.ok <=> m_last.instr.op = "Halt"
       /\ ~run_result.ok => run_result = m_last.res
  /\ (m_last.by \in StepCalls /\ AtOrPastEnd(m_last.at)) =>
       /\ ~m_last.res.ok
       /\ m_last.instr = Nullary("none")
       /\ Machine = m_pre
       /\ m_last.res.err = IF m_last.at = W(Len(program))
                           THEN "Failed parsing instruction"
                           ELSE "Instruction pointer is outside of program code"

C8_Witness ==
  /\ m_last.by = "run" /\ ~run_active
  /\ cmp(m_last.at, W(Len(program))) = "Greater"
  /\ ~run_result.ok /\ run_result = m_last.res
  /\ m_last.n = 2

\* ---- C9
\* The word stored at the stack pointer.
StackTop == read_u32(GetFrom(memory, stack_pointer).v)

\* C9: the instruction pointer is advanced by the instruction's size before
\* the effect runs, so it stays advanced when the effect fails.  A successful
\* Call(addr) at address a leaves the stack pointer 4 lower, a + 5 stored at
\* it and the instruction pointer at addr; a successful Return made with the
\* stack pointer at the slot of the latest Call not yet returned from sets the
\* instruction pointer to that Call's a + 5 and the stack pointer to what it
\* was before that Call.
C9_CallPushesAdvancedAddress ==
  /\ (m_last.by \in StepCalls /\ m_last.instr.op = "Call" /\ m_last.res.ok) =>
       /\ stack_pointer = wrapping_sub(m_pre.stack_pointer, W(4))
       /\ StackTop = Ok(wrapping_add(m_last.at, W(5)))
       /\ instruction_pointer = m_last.instr.ptr
  /\ (m_last.by \in StepCalls /\ m_last.instr.op = "Return" /\ m_last.res.ok
        /\ m_last.popped.kind = "Call") =>
       /\ instruction_pointer = wrapping_add(m_last.popped.at, W(5))
       /\ stack_pointer = m_last.popped.sp_before
  /\ (m_last.by \in StepCalls
        /\ m_last.instr.op \notin {"none", "Return"}
        /\ ~(m_last.res.ok /\ m_last.instr.op \in JumpCallOps)) =>
       instruction_pointer = wrapping_add(m_last.at, W(size(m_last.instr).v))

C9_Witness ==
  /\ m_last.instr.op = "Return" /\ m_last.res.ok
  /\ m_last.popped.kind = "Call" /\ m_last.popped.at = W(6)
  /\ instruction_pointer = W(11)
  /\ Len(frames) = 1 /\ frames[1].kind = "Call" /\ frames[1].at = W(0)

\* ---- C10
\* C10: a successful Pop that takes off the stack the word the matching Push
\* saved leaves that word in the main register, and a successful PopRegister(r)
\* matching a PushRegister(r) leaves it in side register r; both leave the
\* stack pointer where it was before the matching save.  The saves not yet
\* restored are stacked: each lies one word below the one before it and the
\* latest lies at the stack pointer, so a balanced sequence ends with the
\* stack pointer it started with.
C10_BalancedSavesRestore ==
  /\ (m_last.by \in StepCalls /\ m_last.instr.op = "Pop" /\ m_last.res.ok
        /\ m_last.popped.kind = "Push") =>
       /\ main_register = m_last.popped.val
       /\ stack_pointer = m_last.popped.sp_before
  /\ (m_last.by \in StepCalls /\ m_last.instr.op = "PopRegister" /\ m_last.res.ok
        /\ m_last.popped.kind = "PushRegister"
        /\ m_last.popped.reg = m_last.instr.reg) =>
       /\ side_registers[m_last.instr.reg + 1] = m_last.popped.val
       /\ stack_pointer = m_last.popped.sp_before
  /\ frames # <<>> => frames[Len(frames)].slot = stack_pointer
  /\ \A k \in 1..Len(frames) :
       /\ frames[k].slot = wrapping_sub(frames[k].sp_before, W(4))
       /\ k > 1 => frames[k].sp_before = frames[k - 1].slot

C10_Witness ==
  /\ m_last.instr.op = "Pop" /\ m_last.res.ok
  /\ m_last.popped.kind = "Push" /\ m_last.popped.val = <<258, 772>>
  /\ main_register = <<258, 772>> /\ m_pre.main_register = W(0)
  /\ side_registers = <<(<<258, 773>>)>>
  /\ m_last.n = 10 /\ frames = <<>>
  /\ stack_pointer = m_new.memory_size

\* ---- C11
\* C11: Increment executed with the main register at the maximum address word
\* succeeds and leaves the main register 0 and the zero flag true;
\* IncrementRegister(r) on a side register r holding the maximum does the same
\* to that register and the zero flag.
C11_IncrementWrapsToZero ==
  /\ (m_last.by \in StepCalls /\ m_last.instr.op = "Increment"
        /\ m_pre.main_register = VmPtrMAX) =>
       /\ m_last.res = Ok(TRUE)
       /\ main_register = W(0) /\ flag_zero
  /\ (m_last.by \in StepCalls /\ m_last.instr.op = "IncrementRegister"
        /\ m_last.instr.reg < Len(m_pre.side_registers)
        /\ m_pre.side_registers[m_last.instr.reg + 1] = VmPtrMAX) =>
       /\ m_last.res = Ok(TRUE)
       /\ side_registers[m_last.instr.reg + 1] = W(0) /\ flag_zero
       /\ main_register = m_pre.main_register

C11_Witness ==
  /\ m_last.instr.op = "IncrementRegister" /\ m_last.n = 5
  /\ m_pre.side_registers = <<VmPtrMAX>> /\ ~m_pre.flag_zero
  /\ side_registers = <<W(0)>> /\ flag_zero
  /\ main_register = VmPtrMAX

\* ---- C12
\* C12 as stated: Decrement executed with the main register 0 leaves the
\* maximum address word in the main register and the zero flag set.
C12_Original ==
  (m_last.by \in StepCalls /\ m_last.instr.op = "Decrement"
     /\ m_pre.main_register = W(0)) =>
    /\ main_register = VmPtrMAX
    /\ flag_zero

\* C12 amended: Decrement executed with the main register 0 succeeds and
\* leaves the maximum address word in the main register and the zero flag
\* false, the result not being zero.
C12_DecrementWrapsToMax ==
  (m_last.by \in StepCalls /\ m_last.instr.op = "Decrement"
     /\ m_pre.main_register = W(0)) =>
    /\ m_last.res = Ok(TRUE)
    /\ main_register = VmPtrMAX
    /\ ~flag_zero

C12_Witness ==
  /\ m_last.instr.op = "Decrement" /\ m_last.res = Ok(TRUE)
  /\ m_pre.main_register = W(0) /\ m_pre.flag_zero
  /\ main_register = VmPtrMAX /\ ~flag_zero

\* ---- C13
\* C13: Div(r) executed with side register r holding 0 fails with the
\* division-by-zero error and leaves the main register and every side register
\* as they were before the step.
C13_DivByZeroFails ==
  (m_last.by \in StepCalls /\ m_last.instr.op = "Div"
     /\ m_last.instr.reg < Len(m_pre.side_registers)
     /\ m_pre.side_registers[m_last.instr.reg + 1] = W(0)) =>
    /\ m_last.res = Err("Division by zero")
    /\ main_register = m_pre.main_register
    /\ side_registers = m_pre.side_registers

C13_Witness ==
  /\ m_last.instr = WithReg("Div", 0) /\ m_last.res = Err("Division by zero")
  /\ main_register = W(7) /\ side_registers = <<W(0), W(5)>>

\* ---- C14
\* The memory access instructions, the bytes each accesses and where.
AccessOps == LiteralAccessOps \cup RegisterAccessOps
AccessWidth(op) ==
  IF op \in {"Load8", "Store8", "Deref8", "Write8"} THEN 1
  ELSE IF op \in {"Load16", "Store16", "Deref16", "Write16"} THEN 2
  ELSE 4
AccessAddr(m, i) == IF "ptr" \in DOMAIN i THEN i.ptr ELSE m.side_registers[i.reg + 1]
\* Whether the bytes [a, a + width) all lie inside a memory of len bytes.
InsideMemory(a, width, len) == a[1] = 0 /\ a[2] + width <= len
OutOfBoundsErrors ==
  {"Out of memory access occured at", "Out of memory access occurred at the border"}
\* A memory access of the last step() call whose range is not all in memory.
AccessOutside ==
  /\ m_last.by \in StepCalls /\ m_last.instr.op \in AccessOps
  /\ "reg" \in DOMAIN m_last.instr => m_last.instr.reg < Len(m_pre.side_registers)
  /\ ~InsideMemory(AccessAddr(m_pre, m_last.instr), AccessWidth(m_last.instr.op),
                   Len(m_pre.memory))

\* C14: a Load, Store, Deref or Write whose byte range [a, a + width) is not
\* entirely inside the working memory fails with an out-of-bounds error.  The
\* address is not wrapped or reduced: nothing is read into the main register,
\* the memory keeps its length, and the only bytes that can differ afterwards
\* are those of the range that do lie inside the memory.
C14_OutOfRangeAccessFails ==
  AccessOutside =>
    /\ ~m_last.res.ok /\ m_last.res.err \in OutOfBoundsErrors
    /\ main_register = m_pre.main_register
    /\ Len(memory) = Len(m_pre.memory)
    /\ \A k \in 1..Len(memory) :
         memory[k] # m_pre.memory[k] =>
           /\ AccessAddr(m_pre, m_last.instr)[1] = 0
           /\ k > AccessAddr(m_pre, m_last.instr)[2]
           /\ m_last.instr.op \in {"Store16", "Store32", "Write16", "Write32"}

C14_Witness ==
  /\ AccessOutside
  /\ m_last.instr = WithReg("Deref32", 0)
  /\ m_pre.side_registers = <<wrapping_sub(VmPtrMAX, W(2))>>
  /\ ~m_last.res.ok /\ main_register = <<1286, 1800>>
  /\ memory = <<0, 0, 0, 0, 1, 2, 3, 4>>

\* ---- C15
\* C15: Push, Call and PushRegister executed with the stack pointer below 4
\* fail with the stack-overflow error and leave the stack pointer and the
\* memory as they were.
C15_StackOverflowFails ==
  (m_last.by \in StepCalls /\ m_last.instr.op \in {"Push", "Call", "PushRegister"}
     /\ cmp(m_pre.stack_pointer, W(4)) = "Less") =>
    /\ m_last.res = Err("Stack overflow")
    /\ stack_pointer = m_pre.stack_pointer
    /\ memory = m_pre.memory

C15_Witness ==
  /\ m_last.instr.op = "Push" /\ m_last.res = Err("Stack overflow")
  /\ m_pre.stack_pointer = W(0) /\ stack_pointer = W(0)
  /\ Len(memory) = 8 /\ memory = m_pre.memory /\ m_last.n = 3

\* ---- C16
\* A Pop, Return or PopRegister of the last step() call made with nothing
\* pushed: the stack pointer at the memory size.
RestoreOnEmptyStack ==
  /\ m_last.by \in StepCalls /\ m_last.instr.op \in {"Pop", "Return", "PopRegister"}
  /\ m_pre.stack_pointer = m_new.memory_size
\* Such a step changed neither the stack pointer nor a register nor the memory,
\* and went nowhere but to the next instruction.
RestoreChangedNothing ==
  /\ stack_pointer = m_pre.stack_pointer
  /\ main_register = m_pre.main_register
  /\ side_registers = m_pre.side_registers
  /\ memory = m_pre.memory
  /\ instruction_pointer = wrapping_add(m_last.at, W(size(m_last.instr).v))

\* C16 as stated: Pop, Return and PopRegister executed with nothing pushed
\* fail with the stack-underflow error and change nothing.
C16_Original ==
  RestoreOnEmptyStack =>
    /\ m_last.res = Err("Stack underflow")
    /\ RestoreChangedNothing

\* What the code does instead: the read of the saved word at the border of
\* the memory fails first, with its own error, and nothing has changed.
EmptyStackRestoreFailsAtBorder ==
  RestoreOnEmptyStack =>
    /\ m_last.res = Err("Out of memory access occurred at the border")
    /\ RestoreChangedNothing

EmptyStackReturn ==
  /\ RestoreOnEmptyStack /\ m_last.instr.op = "Return" /\ m_last.n = 2
  /\ m_last.res = Err("Out of memory access occurred at the border")
  /\ main_register = W(7) /\ stack_pointer = W(8) /\ instruction_pointer = W(6)

\* ---- C17
\* C17: an instruction with a register operand r, executed on a Machine with
\* r or fewer side registers, fails and leaves the main register, the side
\* registers, the flags, the memory and the stack pointer unchanged.
C17_BadRegisterChangesNothing ==
  (m_last.by \in StepCalls /\ "reg" \in DOMAIN m_last.instr
     /\ m_last.instr.op # "Syscall"
     /\ m_last.instr.reg >= Len(m_pre.side_registers)) =>
    /\ ~m_last.res.ok
    /\ main_register = m_pre.main_register
    /\ side_registers = m_pre.side_registers
    /\ flag_zero = m_pre.flag_zero /\ flag_comparison = m_pre.flag_comparison
    /\ memory = m_pre.memory
    /\ stack_pointer = m_pre.stack_pointer

\* ---- C18
\* The bytes the layout of the opcode in code[1] takes, opcode included, as far
\* as the buffer tells: a Data takes its length prefix and as many bytes as the
\* prefix says (more than any buffer holds when the prefix is 2^16 or more).
LayoutBytes(code) ==
  LET lay == ParseTable[code[1] + 1][2] IN
  CASE lay = "none" -> 1
    [] lay = "reg" -> 2
    [] lay = "ptr" -> 1 + PtrSize
    [] lay = "reg_ptr" -> 2 + PtrSize
    [] lay = "ptr_ptr" -> 1 + 2 * PtrSize
    [] lay = "data" ->
       IF Len(code) < 1 + PtrSize THEN 1 + PtrSize
       ELSE LET len == from_be_bytes(SubSeq(code, 2, 1 + PtrSize)) IN
            IF len[1] # 0 THEN Len(code) + 1 ELSE 1 + PtrSize + len[2]
TruncatedErrors ==
  {"Cannot parse instruction from empty code", "not enough bytes",
   "Out of memory access occurred at the border"}

\* C18: Instruction::parse never panics: on an empty buffer or one shorter
\* than the layout of its opcode (a Data whose length prefix exceeds the bytes
\* that remain included) it returns a truncated-input error, on a first byte
\* above 45 the unrecognized-opcode error, and otherwise the instruction, which
\* is the one encoded by the first size() bytes whatever follows them.
C18_ParseIsTotal ==
  c_pc = "parsed" =>
    /\ ~IsPanic(c_parsed)
    /\ IF Len(c_code) = 0
         THEN c_parsed = Err("Cannot parse instruction from empty code")
       ELSE IF c_code[1] > 45 THEN c_parsed = Err("Unrecognized instruction")
       ELSE IF Len(c_code) < LayoutBytes(c_code)
         THEN ~c_parsed.ok /\ c_parsed.err \in TruncatedErrors
       ELSE /\ c_parsed.ok
            /\ size(c_parsed.v) = Ok(LayoutBytes(c_code))
            /\ bytes(c_parsed.v) = Ok(SubSeq(c_code, 1, LayoutBytes(c_code)))
            /\ parse(SubSeq(c_code, 1, LayoutBytes(c_code))) = c_parsed

C18_Witness ==
  /\ c_pc = "parsed" /\ Len(c_code) = 6 /\ c_code[1] = 14
  /\ from_be_bytes(SubSeq(c_code, 2, 5)) = W(2)
  /\ c_parsed = Err("Out of memory access occurred at the border")

\* ---- C19
\* The print-number events of an output, as numbers, in order.
RECURSIVE Numbers(_)
Numbers(out) ==
  IF out = <<>> THEN <<>>
  ELSE (IF Head(out)[1] = "print_number" THEN <<native_ptr(Head(out)[2])>> ELSE <<>>)
       \o Numbers(Tail(out))
IsPrefix(s, full) == Len(s) <= Len(full) /\ s = SubSeq(full, 1, Len(s))
\* The loop program is running: no step() call has ended it yet.
ScenarioARunning == m_new = ScenarioAConfig /\ ~m_last.after_end

\* C19: the loop program on a Machine with 0 side registers prints the numbers
\* 5, 4, 3, 2, 1 in that order and nothing else but the empty line: no step
\* fails, the step that ends the program is the Halt, the 20th, by then just
\* these five numbers have been printed, and a run() that ended the program
\* returned success.
C19_LoopPrintsFiveToOne ==
  ScenarioARunning =>
    /\ IsPrefix(Numbers(output), <<5, 4, 3, 2, 1>>)
    /\ m_last.by \in StepCalls => m_last.res.ok
    /\ Ended(m_last) =>
         /\ m_last.instr = Nullary("Halt") /\ m_last.n = 20
         /\ output = <<<<"print_number", W(5)>>, <<"print_number", W(4)>>,
                       <<"print_number", W(3)>>, <<"print_number", W(2)>>,
                       <<"print_number", W(1)>>, <<"println", <<>>>>>>
    /\ (m_last.by = "run" /\ ~run_active) => run_result = Ok("unit")

C19_Witness ==
  /\ ScenarioARunning /\ m_last.by = "run" /\ ~run_active /\ run_result = Ok("unit")
  /\ Numbers(output) = <<5, 4, 3, 2, 1>> /\ main_register = W(0) /\ m_last.n = 20

\* ---- C20
\* The hello-world program is running: no step() call has ended it yet.
ScenarioBRunning == m_new \in ScenarioBConfigs /\ ~m_last.after_end

\* C20: the hello-world program, whose first instruction is its Data segment,
\* runs to a clean halt: no step fails, the Data is stepped over, and when the
\* Halt has ended the program memory[10..23) holds the 13 bytes of the payload,
\* the one event printed is the line "Hello world!", and a run() that ended
\* the program returned success.
C20_HelloWorldPrintsOneLine ==
  ScenarioBRunning =>
    /\ m_last.by \in StepCalls => m_last.res.ok
    /\ (m_last.by \in StepCalls /\ m_last.n = 1) =>
         /\ m_last.instr = Data(W(13), HelloWorld \o <<0>>)
         /\ instruction_pointer = W(18)
         /\ memory = m_pre.memory /\ output = <<>>
    /\ Ended(m_last) =>
         /\ m_last.instr = Nullary("Halt") /\ m_last.n = 5
         /\ SubSeq(memory, 11, 23) = HelloWorld \o <<0>>
         /\ \A k \in 1..Len(memory) : (k < 11 \/ k > 23) => memory[k] = 0
         /\ output = <<<<"println", HelloWorld>>>>
    /\ (m_last.by = "run" /\ ~run_active) => run_result = Ok("unit")

C20_Witness ==
  /\ ScenarioBRunning /\ m_last.by = "run" /\ ~run_active /\ run_result = Ok("unit")
  /\ output = <<<<"println", HelloWorld>>>> /\ memory[22] = 33 /\ memory[23] = 0
  /\ Len(side_registers) = 4

\* ---- C26
ConditionalJumps ==
  {"JumpEqual", "JumpNotEqual", "JumpGreater", "JumpLess", "JumpGreaterEqual",
   "JumpLessEqual", "JumpZero", "JumpNonzero"}
\* m > s as unsigned 32-bit numbers.
Above(m, s) == m[1] > s[1] \/ (m[1] = s[1] /\ m[2] > s[2])
\* The flag a Compare of m with s leaves.
Compared(m, s) == IF m = s THEN "Equal" ELSE IF Above(m, s) THEN "Greater" ELSE "Less"
\* The comparison flags, and the zero flags, on which each jump is taken.
TakenOn(op) ==
  CASE op = "JumpEqual" -> {"Equal"}
    [] op = "JumpNotEqual" -> {"Less", "Greater"}
    [] op = "JumpGreater" -> {"Greater"}
    [] op = "JumpLess" -> {"Less"}
    [] op = "JumpGreaterEqual" -> {"Greater", "Equal"}
    [] op = "JumpLessEqual" -> {"Less", "Equal"}
    [] op = "JumpZero" -> {TRUE}
    [] op = "JumpNonzero" -> {FALSE}
JumpIsTaken(op, c, z) ==
  IF op \in {"JumpZero", "JumpNonzero"} THEN z \in TakenOn(op) ELSE c \in TakenOn(op)
\* Registers, flags, memory and stack pointer are those before the last step.
OnlyControlMoved ==
  /\ main_register = m_pre.main_register /\ side_registers = m_pre.side_registers
  /\ flag_zero = m_pre.flag_zero /\ flag_comparison = m_pre.flag_comparison
  /\ memory = m_pre.memory /\ stack_pointer = m_pre.stack_pointer

\* C26: a Compare(r) leaves the comparison flag of main register against side
\* register r (unsigned); each conditional jump is taken exactly on the flag
\* values of its name (JumpZero/JumpNonzero on the zero flag being true/false),
\* a taken jump sets the instruction pointer to the operand, an untaken one
\* leaves it at the next instruction, and in both cases the step succeeds and
\* no register, flag, memory byte or the stack pointer changes.
C26_JumpsFollowFlags ==
  /\ (m_last.by \in StepCalls /\ m_last.instr.op = "Compare" /\ m_last.res.ok) =>
       flag_comparison =
         Compared(m_pre.main_register, m_pre.side_registers[m_last.instr.reg + 1])
  /\ (m_last.by \in StepCalls /\ m_last.instr.op \in ConditionalJumps) =>
       /\ m_last.res = Ok(TRUE)
       /\ instruction_pointer =
            IF JumpIsTaken(m_last.instr.op, m_pre.flag_comparison, m_pre.flag_zero)
            THEN m_last.instr.ptr
            ELSE wrapping_add(m_last.at, W(1 + PtrSize))
       /\ OnlyControlMoved

C26_Witness ==
  /\ m_last.by \in StepCalls /\ m_last.instr = WithPtr("JumpGreaterEqual", W(20))
  /\ m_last.n = 5 /\ flag_comparison = "Equal" /\ main_register = W(1)
  /\ side_registers = <<W(2)>> /\ ~flag_zero /\ instruction_pointer = W(20)

\* ---- C27
ZeroFlagOps == {"Increment", "Decrement", "IncrementRegister", "DecrementRegister"}

\* C27: whatever a step() call executes and however it ends, the comparison
\* flag differs from the one before only when the instruction is a Compare,
\* and the zero flag only when it is an Increment, Decrement, IncrementRegister
\* or DecrementRegister; a Compare leaves the zero flag as it was.
C27_FlagsHaveTheirOwnWriters ==
  m_last.by \in StepCalls =>
    /\ flag_comparison # m_pre.flag_comparison => m_last.instr.op = "Compare"
    /\ flag_zero # m_pre.flag_zero => m_last.instr.op \in ZeroFlagOps

C27_Witness ==
  /\ m_last.by \in StepCalls /\ m_last.instr = WithReg("Sub", 0) /\ m_last.res.ok
  /\ m_pre.main_register = W(1) /\ main_register = W(0)
  /\ ~flag_zero /\ flag_comparison = "Equal"

\* ---- C28
\* The last step was a Div by a side register in range that held no zero.
Divided ==
  /\ m_last.by \in StepCalls /\ m_last.instr.op = "Div"
  /\ m_last.instr.reg < Len(m_pre.side_registers)
  /\ m_pre.side_registers[m_last.instr.reg + 1] # W(0)

\* C28: Div(r) with main register m and side register r holding d # 0
\* succeeds and leaves the quotient in the main register and the remainder in
\* side register r: main' * d + reg' = m without overflow and reg' < d; no
\* other side register changes.
C28_DivLeavesQuotientAndRemainder ==
  Divided =>
    LET r == m_last.instr.reg + 1
        d == m_pre.side_registers[r]
        product == checked_mul(main_register, d)
    IN  /\ m_last.res = Ok(TRUE)
        /\ product.ok
        /\ checked_add(product.v, side_registers[r]) = Ok(m_pre.main_register)
        /\ Above(d, side_registers[r])
        /\ \A k \in 1..Len(side_registers) :
             k # r => side_registers[k] = m_pre.side_registers[k]
        /\ Len(side_registers) = Len(m_pre.side_registers)

C28_Witness ==
  /\ Divided /\ m_pre.main_register = <<40000, 7>> /\ m_pre.side_registers = <<W(9), W(3)>>
  /\ main_register = <<13333, 21847>> /\ side_registers = <<W(9), W(2)>>

\* ---- C29
\* a + b and a * k (k <= 256) modulo 2^32, limb by limb.
PlusMod(a, b) ==
  <<(a[1] + b[1] + (a[2] + b[2]) \div Limb) % Limb, (a[2] + b[2]) % Limb>>
TimesMod(a, k) ==
  <<(a[1] * k + (a[2] * k) \div Limb) % Limb, (a[2] * k) % Limb>>
\* a * b modulo 2^32: b taken byte by byte, the most significant first.
ProductMod(a, b) ==
  LET b1 == b[1] \div 256
      b2 == b[1] % 256
      b3 == b[2] \div 256
      b4 == b[2] % 256
  IN  PlusMod(TimesMod(PlusMod(TimesMod(PlusMod(TimesMod(TimesMod(a, b1), 256),
                                                TimesMod(a, b2)), 256),
                               TimesMod(a, b3)), 256),
              TimesMod(a, b4))
\* 2^32 - b modulo 2^32.
MinusMod(b) == PlusMod(<<Limb - 1 - b[1], Limb - 1 - b[2]>>, W(1))

\* C29: Add(r), Sub(r) and Mul(r) with r in range always succeed: the main
\* register becomes m + s, m - s or m * s modulo 2^32, s being side register
\* r, and no side register changes.
C29_ArithmeticWraps ==
  (m_last.by \in StepCalls /\ m_last.instr.op \in {"Add", "Sub", "Mul"}
     /\ m_last.instr.reg < Len(m_pre.side_registers)) =>
    LET m == m_pre.main_register
        s == m_pre.side_registers[m_last.instr.reg + 1]
    IN  /\ m_last.res = Ok(TRUE)
        /\ main_register = CASE m_last.instr.op = "Add" -> PlusMod(m, s)
                             [] m_last.instr.op = "Sub" -> PlusMod(m, MinusMod(s))
                             [] m_last.instr.op = "Mul" -> ProductMod(m, s)
        /\ side_registers = m_pre.side_registers

C29_Witness ==
  /\ m_last.by \in StepCalls /\ m_last.instr = WithReg("Mul", 1) /\ m_last.res = Ok(TRUE)
  /\ m_pre.main_register = <<40000, 7>> /\ side_registers[2] = <<40000, 7>>
  /\ main_register = <<35712, 49>>

\* ---- C30
\* Whether start + count <= len, as numbers.
Fits(start, count, len) ==
  /\ ~Above(start, W(len))
  /\ ~Above(count, W(len - start[2]))
\* The last step was a CopyCodeMemory.
Copied == m_last.by \in StepCalls /\ m_last.instr.op = "CopyCodeMemory"

\* C30: CopyCodeMemory(source, size) succeeds exactly when source + size is at
\* most the length of the Executable and main register + size at most the
\* memory size; on success memory[main .. main+size) is
\* Executable[source .. source+size) and every other memory byte, every
\* register, both flags and the stack pointer are unchanged; on failure no
\* memory byte changes.
C30_CopyIsBoundsChecked ==
  Copied =>
    LET source == m_last.instr.source
        count == m_last.instr.size
        target == m_pre.main_register
        fits == /\ Fits(source, count, Len(program))
                /\ Fits(target, count, Len(m_pre.memory))
    IN  /\ m_last.res.ok = fits
        /\ Len(memory) = Len(m_pre.memory)
        /\ fits =>
             /\ m_last.res = Ok(TRUE)
             /\ \A k \in 1..Len(memory) :
                  memory[k] = IF k > target[2] /\ k <= target[2] + count[2]
                              THEN program[source[2] + k - target[2]]
                              ELSE m_pre.memory[k]
             /\ main_register = m_pre.main_register
             /\ side_registers = m_pre.side_registers
             /\ stack_pointer = m_pre.stack_pointer
             /\ flag_zero = m_pre.flag_zero /\ flag_comparison = m_pre.flag_comparison
        /\ ~fits => memory = m_pre.memory

C30_Witness ==
  /\ Copied /\ m_last.res = Ok(TRUE) /\ m_last.instr = CopyCodeMemory(W(6), W(4))
  /\ main_register = W(4) /\ memory = <<0, 0, 0, 0, 0, 0, 0, 6>>

\* ---- C25
\* The encodings of the first k instructions of p, one after the other.
RECURSIVE Flat(_, _)
Flat(p, k) == IF k = 0 THEN <<>> ELSE Flat(p, k - 1) \o bytes(p[k]).v

\* C25: compile() leaves the Program as it was and returns the encodings of
\* its instructions concatenated in insertion order: a further call returns
\* the same bytes, their length is the sum of all size() values, and for every
\* valid index k parse() of the bytes from offset resolve(k) on is instruction
\* k.
C25_CompileFlattens ==
  b_last.op = "compile" =>
    /\ instructions = b_prev
    /\ b_last.res = Ok(Flat(instructions, Len(instructions)))
    /\ compile(instructions) = b_last.res.v
    /\ Len(b_last.res.v) = SumSizes(instructions, Len(instructions))
    /\ \A k \in 0..(Len(instructions) - 1) :
         parse(SubSeq(b_last.res.v, resolve(instructions, k).v.addr[2] + 1,
                      Len(b_last.res.v)))
           = Ok(instructions[k + 1])

C25_Witness ==
  /\ b_last.op = "compile" /\ Len(instructions) = 3
  /\ instructions[1].op = "Data" /\ instructions[1].data # <<>>
  /\ instructions[2].op = "CopyCodeMemory" /\ instructions[3].op = "Jump"
  /\ Len(b_last.res.v) = 5 + Len(instructions[1].data) + 9 + 5


\* ---- C24
\* The line the last round of the first loop was on, and whether a text starts
\* with a prefix.
LastLine == a_input[a_last.line]
StartsWith(text, prefix) ==
  Len(text) >= Len(prefix) /\ SubSeq(text, 1, Len(prefix)) = prefix
CommentPrefixed(raw) ==
  StartsWith(trim(raw), <<"#">>) \/ StartsWith(trim(raw), <<"/", "/">>)

\* C24: a line whose trimmed text starts with # or // is a comment, whatever
\* follows the prefix, with or without a space after it: the round on it leaves
\* from_str's locals (the Program, the instruction count, the label table and
\* the queues) as they were and is no error.
C24_Original ==
  (a_last.line # 0 /\ CommentPrefixed(LastLine)) => a_last.res = Ok(a_last.pre)

\* ---- C23
\* What the grammar makes of a line: its tokens, its command (the first token
\* in lower case), and how many arguments the command takes.  dataString
\* takes the rest of the line, whatever the number of its words.
Tokens(raw) == split_whitespace(raw)
IsBlank(raw) == \A k \in 1..Len(raw) : raw[k] \in WhiteSpace
IsComment(raw) == ~IsBlank(raw) /\ Tokens(raw)[1] \in {<<"#">>, <<"/", "/">>}
IsStatement(raw) == ~IsBlank(raw) /\ ~IsComment(raw)
Command(raw) == to_lowercase(Tokens(raw)[1])
LabelCommand == <<"l", "a", "b", "e", "l">>
DataCommand == <<"d", "a", "t", "a", "s", "t", "r", "i", "n", "g">>
ArgCount(cmd) ==
  IF cmd = LabelCommand THEN 1
  ELSE LET lay == ParseTable[CHOOSE k \in 1..Len(Mnemonics) : Mnemonics[k] = cmd][2] IN
       CASE lay = "none" -> 0
         [] lay \in {"ptr", "reg", "ptr_ptr"} -> 1
         [] lay = "reg_ptr" -> 2
IsKnown(cmd) == cmd = LabelCommand \/ \E k \in 1..Len(Mnemonics) : Mnemonics[k] = cmd
UnknownMnemonic(raw) == IsStatement(raw) /\ ~IsKnown(Command(raw))
WrongArgCount(raw) ==
  /\ IsStatement(raw) /\ IsKnown(Command(raw)) /\ Command(raw) # DataCommand
  /\ Len(Tokens(raw)) - 1 # ArgCount(Command(raw))
\* The commands that name a label, and the well-formed lines that do.
ReferenceCommands ==
  {Mnemonics[k] : k \in {j \in 1..Len(Mnemonics) :
                           ParseTable[j][1] \in PatchableJumps \cup {"CopyCodeMemory"}}}
IsReference(raw) ==
  IsStatement(raw) /\ Command(raw) \in ReferenceCommands /\ Len(Tokens(raw)) = 2
IsDeclaration(raw) ==
  IsStatement(raw) /\ Command(raw) = LabelCommand /\ Len(Tokens(raw)) = 2
Declared(input) == {Tokens(input[k])[2] : k \in {j \in 1..Len(input) : IsDeclaration(input[j])}}
Referenced(input) == {Tokens(input[k])[2] : k \in {j \in 1..Len(input) : IsReference(input[j])}}
Malformed(raw) == UnknownMnemonic(raw) \/ WrongArgCount(raw)

\* C23: once from_str has returned, on a source with an unknown mnemonic, a
\* known one with the wrong number of arguments, or a reference to a label
\* declared nowhere, it has returned an error; and an error of the first loop
\* is on a line no malformed line comes before, with nothing emitted for it,
\* and no line after the first malformed one is read.  The result is then the
\* error alone: no Program comes with it.
C23_AssemblyStopsAtFirstError ==
  a_pc = "returned" =>
    /\ ((\E k \in 1..Len(a_input) : Malformed(a_input[k]))
        \/ ~(Referenced(a_input) \subseteq Declared(a_input)))
         => (~a_result.ok /\ DOMAIN a_result = {"ok", "err"})
    /\ (~a_result.ok /\ a_pos <= Len(a_input))
         => /\ a_last.line = a_pos /\ a_last.res = a_result /\ a_state = a_last.pre
            /\ \A k \in 1..(a_pos - 1) : ~Malformed(a_input[k])
    /\ \A k \in 1..Len(a_input) : Malformed(a_input[k]) => a_pos <= k
\* An unknown mnemonic on the second of three lines, after an instruction.
C23_Witness ==
  /\ a_pc = "returned" /\ ~a_result.ok
  /\ Len(a_input) = 3 /\ a_pos = 2
  /\ UnknownMnemonic(a_input[2])
  /\ Len(a_state.program) = 1

\* ---- C22
\* The lines that emit an instruction, and how many of them come before line k.
Emits(raw) == IsStatement(raw) /\ Command(raw) # LabelCommand
EmittedBefore(input, k) == Cardinality({j \in 1..(k - 1) : Emits(input[j])})
\* The commands that jump, and the lines that refer to a label with one.
JumpCommands ==
  {Mnemonics[k] : k \in {j \in 1..Len(Mnemonics) : ParseTable[j][1] \in PatchableJumps}}
IsJump(raw) == IsReference(raw) /\ Command(raw) \in JumpCommands
\* The line that declares a label: the last one, when there are several.
DeclLine(input, label) ==
  CHOOSE k \in 1..Len(input) :
    /\ IsDeclaration(input[k]) /\ Tokens(input[k])[2] = label
    /\ \A j \in (k + 1)..Len(input) :
         ~(IsDeclaration(input[j]) /\ Tokens(input[j])[2] = label)
\* The bytes the instructions lo..hi of a Program take.
RECURSIVE SizeSum(_, _, _)
SizeSum(p, lo, hi) ==
  IF lo > hi THEN 0
  ELSE IF lo = hi THEN size(p[lo]).v
  ELSE SizeSum(p, lo, (lo + hi) \div 2) + SizeSum(p, (lo + hi) \div 2 + 1, hi)
\* A source of labels, jumps, data without a NUL character and instructions
\* without operands, in which every label referred to is declared and has an
\* instruction after it.
Jumpable(input) ==
  /\ \A k \in 1..Len(input) :
       IsStatement(input[k]) =>
         \/ IsDeclaration(input[k]) \/ IsJump(input[k])
         \/ (Command(input[k]) = DataCommand
             /\ \A j \in 1..Len(input[k]) : input[k][j] # NulChar)
         \/ (IsKnown(Command(input[k])) /\ Command(input[k]) # DataCommand
             /\ ~WrongArgCount(input[k]) /\ ArgCount(Command(input[k])) = 0)
  /\ Referenced(input) \subseteq Declared(input)
  /\ \A label \in Referenced(input) :
       \E k \in (DeclLine(input, label) + 1)..Len(input) : Emits(input[k])

\* C22: in the Program from_str returns, the instruction of every line that
\* jumps, calls or jumps on a condition to a label is that jump with, as its
\* operand, the sizes of the instructions emitted before the label's
\* declaration added up, Data included, wherever the declaration stands; no
\* jump of the Program has the sentinel for its operand; and from_str does
\* return a Program when every label referred to is declared and followed by
\* an instruction.
C22_JumpsLandAfterTheirLabel ==
  a_pc = "returned" =>
    /\ a_result.ok =>
         /\ Len(a_result.v) = EmittedBefore(a_input, Len(a_input) + 1)
         /\ \A k \in 1..Len(a_input) :
              IsJump(a_input[k]) =>
                LET jump == a_result.v[EmittedBefore(a_input, k) + 1]
                    target == EmittedBefore(a_input, DeclLine(a_input, Tokens(a_input[k])[2]))
                IN  /\ \E j \in 1..Len(Mnemonics) :
                         Mnemonics[j] = Command(a_input[k]) /\ ParseTable[j][1] = jump.op
                    /\ target < Len(a_result.v)
                    /\ jump.ptr = W(SizeSum(a_result.v, 1, target))
         /\ \A n \in 1..Len(a_result.v) :
              a_result.v[n].op \in PatchableJumps => a_result.v[n].ptr # VmPtrMAX
    /\ Jumpable(a_input) => a_result.ok
\* examples/asm_function.rs is assembled: `jump main` goes forward, over the
\* Data, to 40, and the calls of main go back to 23.
C22_Witness ==
  /\ a_pc = "returned" /\ a_result.ok
  /\ a_input = AsmFunctionSource
  /\ a_result.v[1] = WithPtr("Jump", W(40))
  /\ a_result.v[2].op = "Data"
  /\ a_result.v[7] = WithPtr("Call", W(23))

\* ---- C21
\* C21: in the run of examples/fibonacci.rs (fibonacci of 15, two side
\* registers, 1024 bytes) no step() call returns an error, the stack pointer
\* never leaves the memory, the number syscall is made with 610 in the main
\* register and prints it, and when run() has returned it has returned Ok(())
\* after a Halt, with the number and an empty line printed and the stack
\* pointer at 1024 again, within the steps the run is given.
C21_FibonacciOfFifteen ==
  a_pc = "machine" =>
    /\ m_new = [program |-> compile(a_result.v), memory_size |-> W(1024), side_regs |-> 2]
    /\ m_last.by = "run" => m_last.res.ok
    /\ cmp(stack_pointer, W(1024)) # "Greater"
    /\ m_last.instr = WithReg("Syscall", 1) =>
         /\ m_pre.main_register = W(610)
         /\ output = <<<<"print_number", W(610)>>>>
    /\ \A k \in 1..Len(output) : output[k][1] = "print_number" => output[k][2] = W(610)
    /\ run_result # NotCalled =>
         /\ run_result = Ok("unit")
         /\ m_last.instr = Nullary("Halt")
         /\ stack_pointer = W(1024)
         /\ frames = <<>>
         /\ output = <<<<"print_number", W(610)>>, <<"println", <<>>>>>>
         /\ m_last.n < MaxRunSteps
\* run() has returned Ok(()) with 610 printed.
C21_Witness ==
  /\ a_pc = "machine"
  /\ run_result = Ok("unit")
  /\ output[1] = <<"print_number", W(610)>>
  /\ stack_pointer = W(1024)
  /\ main_register = W(610)

\* ---- C31
\* The Data instructions of a Program, by index, and what a copy of the one at
\* d must be: its source 1 + 4 bytes past the sizes before d added up, its size
\* the length of the payload.
IsDataIndex(p, d) == d < Len(p) /\ p[d + 1].op = "Data"
CopyOf(p, d) ==
  CopyCodeMemory(W(SizeSum(p, 1, d) + 1 + 4), W(Len(p[d + 1].data)))
\* The copy at index i of Program p takes, out of the compiled p, the payload
\* of the Data at d and nothing else, and executed on a Machine of 8 bytes
\* whose main register holds `target` it writes the payload there.
CopiesPayload(p, i, d, target) ==
  LET copy == p[i + 1]
      payload == p[d + 1].data
      from == copy.source[2]
      code == compile(p)
      m == [MachineNew(code, W(8), 0) EXCEPT !.main_register = W(target)]
      e == exec_CopyCodeMemory(m, copy.source, copy.size)
  IN  /\ copy = CopyOf(p, d)
      /\ SubSeq(code, from + 1, from + Len(payload)) = payload
      /\ code[from - 4] = 14
      /\ SubSeq(code, from - 3, from) = to_be_bytes(W(Len(payload)))
      /\ from + Len(payload) = SizeSum(p, 1, d + 1)
      /\ e.res = Ok(TRUE)
      /\ SubSeq(e.m.memory, target + 1, target + Len(payload)) = payload
      /\ \A k \in 1..8 : (k <= target \/ k > target + Len(payload)) => e.m.memory[k] = 0

\* C31: on every Program the builder reaches, add_copy_data(d) appends, and
\* replace_dummy_copy_data(i, d) on a CopyCodeMemory at i writes, the copy of
\* the Data at d, whose source range in the compiled bytes is the payload of
\* that Data, after its opcode and length, and which executed writes the
\* payload at the main register's address; with d out of range or not at a
\* Data both fail, and a failed call leaves the Program as it was.
C31_CopyTakesThePayload ==
  /\ b_last.res.ok =>
       \A d \in BuilderIndices :
         LET added == add_copy_data(instructions, d) IN
         /\ added.ok = IsDataIndex(instructions, d)
         /\ added.ok =>
              /\ added.v = Len(instructions)
              /\ added.p = Append(instructions, CopyOf(instructions, d))
              /\ CopiesPayload(added.p, added.v, d, 3)
         /\ \A i \in 0..(Len(instructions) - 1) :
              LET patched == replace_dummy_copy_data(instructions, i, d) IN
              /\ patched.ok => IsDataIndex(instructions, d)
              /\ (IsDataIndex(instructions, d) /\ instructions[i + 1].op = "CopyCodeMemory")
                   => /\ patched.ok
                      /\ patched.p = [instructions EXCEPT ![i + 1] = CopyOf(instructions, d)]
                      /\ CopiesPayload(patched.p, i, d, 3)
  /\ (b_last.op \in {"add_copy_data", "replace_dummy_copy_data"} /\ ~b_last.res.ok)
       => instructions = b_prev
  /\ (b_last.op = "add_copy_data" /\ b_last.res.ok)
       => /\ Len(instructions) = Len(b_prev) + 1
          /\ \E d \in 0..(Len(b_prev) - 1) :
               IsDataIndex(b_prev, d) /\ CopiesPayload(instructions, Len(b_prev), d, 3)
  /\ (b_last.op = "replace_dummy_copy_data" /\ b_last.res.ok)
       => \E d \in 0..(Len(b_prev) - 1) :
            IsDataIndex(b_prev, d) /\ CopiesPayload(instructions, b_last.index, d, 3)
\* A placeholder before the Data "H\0" has been patched to copy it.
C31_Witness ==
  /\ b_last.op = "replace_dummy_copy_data" /\ b_last.res.ok /\ b_last.index = 0
  /\ b_prev[1] = CopyCodeMemory(VmPtrMAX, W(0))
  /\ instructions[2] = Data(W(2), <<72, 0>>)
  /\ instructions[1] = CopyCodeMemory(W(14), W(2))

\* ---- C32
\* The stores and the loads, their width in bits, and the bytes they are on.
StoreOps == {"Store8", "Store16", "Store32", "Write8", "Write16", "Write32"}
LoadOps == {"Load8", "Load16", "Load32", "Deref8", "Deref16", "Deref32"}
\* The last nb bytes of a word, most significant first, and the word that nb
\* bytes make when zeros are put before them.
BigEndian(value, nb) ==
  SubSeq(<<value[1] \div 256, value[1] % 256, value[2] \div 256, value[2] % 256>>, 5 - nb, 4)
ZeroExtended(b) ==
  CASE Len(b) = 1 -> <<0, b[1]>>
    [] Len(b) = 2 -> <<0, b[1] * 256 + b[2]>>
    [] Len(b) = 4 -> <<b[1] * 256 + b[2], b[3] * 256 + b[4]>>
\* A word modulo 2^width.
ModBits(value, width) ==
  CASE width = 8 -> <<0, value[2] % 256>>
    [] width = 16 -> <<0, value[2]>>
    [] width = 32 -> value
\* Everything of the Machine but its memory, main register and instruction
\* pointer is as before the last step.
RestKept ==
  /\ side_registers = m_pre.side_registers /\ stack_pointer = m_pre.stack_pointer
  /\ flag_zero = m_pre.flag_zero /\ flag_comparison = m_pre.flag_comparison
  /\ output = m_pre.output /\ program = m_pre.program

\* C32: a store that succeeds leaves the low bytes of the main register, most
\* significant first, in the bytes at its address and changes no other byte
\* and no register; a load that succeeds leaves those bytes, zero-extended, in
\* the main register and changes nothing else; and a value stored and loaded
\* back at once, at a literal address or through a side register, comes back
\* modulo 2^N.
C32_StoreThenLoadIsModulo ==
  (m_last.by \in StepCalls /\ m_last.res.ok) =>
    LET op == m_last.instr.op
        at == IF op \in StoreOps \cup LoadOps THEN AccessAddr(m_pre, m_last.instr)[2] ELSE 0
        nb == AccessWidth(op)
    IN  /\ op \in StoreOps =>
             /\ AccessAddr(m_pre, m_last.instr)[1] = 0 /\ at + nb <= Len(memory)
             /\ memory = [k \in 1..Len(m_pre.memory) |->
                            IF k > at /\ k <= at + nb
                            THEN BigEndian(m_pre.main_register, nb)[k - at]
                            ELSE m_pre.memory[k]]
             /\ main_register = m_pre.main_register
             /\ RestKept
        /\ op \in LoadOps =>
             /\ AccessAddr(m_pre, m_last.instr)[1] = 0 /\ at + nb <= Len(memory)
             /\ main_register = ZeroExtended(SubSeq(m_pre.memory, at + 1, at + nb))
             /\ memory = m_pre.memory
             /\ RestKept
        /\ (op \in LoadOps /\ m_new.side_regs = 2 /\ m_last.n \in {5, 6}) =>
             \A width \in RoundTripWidths, addr \in RoundTripAddrs, value \in RoundTripValues :
               (\/ m_new.program = compile(RoundTripLiteral(width, addr, value))
                \/ m_new.program = compile(RoundTripRegister(width, addr, value)))
                 => /\ main_register = ModBits(value, width)
                    /\ op \in {AccessName("Load", width), AccessName("Deref", width)}
\* 0x9C40FF00 written through side register 1 at 3 as 16 bits and read back:
\* 0xFF00 comes back, the bytes at 3 and 4 are FF 00, those around are kept.
C32_Witness ==
  /\ m_last.by \in StepCalls /\ m_last.res.ok
  /\ m_last.instr = WithReg("Deref16", 1)
  /\ m_new.program = compile(RoundTripRegister(16, W(3), <<40000, 65280>>))
  /\ main_register = <<0, 65280>>
  /\ memory = <<0, 0, 1, 255, 0, 4, 0, 0>>

\* ---- C33
\* The text of a dataString line: what stands after the command, without the
\* whitespace around it.
DataText(raw) ==
  LET first == CHOOSE k \in 1..Len(raw) :
                 raw[k] \notin WhiteSpace /\ \A j \in 1..(k - 1) : raw[j] \in WhiteSpace
      rest == {k \in (first + 10)..Len(raw) : raw[k] \notin WhiteSpace}
  IN  IF rest = {} THEN <<>>
      ELSE SubSeq(raw, CHOOSE k \in rest : \A j \in rest : k <= j,
                       CHOOSE k \in rest : \A j \in rest : k >= j)
\* The last round was on a dataString line.
DataLine == a_last.line # 0 /\ IsStatement(LastLine) /\ Command(LastLine) = DataCommand
\* The round emitted one Data holding the text and one NUL after it.
EmittedText(text) ==
  /\ a_last.res.ok
  /\ a_last.res.v.program =
       Append(a_last.pre.program, Data(W(Len(text) + 1), as_bytes(text) \o <<0>>))
  /\ a_last.res.v.next_index = a_last.pre.next_index + 1
  /\ a_last.res.v.label_index = a_last.pre.label_index
  /\ a_last.res.v.dummy_jumps = a_last.pre.dummy_jumps
  /\ a_last.res.v.dummy_copy_data = a_last.pre.dummy_copy_data

\* C33 as stated: a dataString line emits one Data instruction holding the
\* bytes of its text and one NUL byte after them, with the text's length plus
\* one as its length, whatever the text.
C33_Original == DataLine => EmittedText(DataText(LastLine))

\* C33 amended: a dataString line whose text holds no NUL character emits one
\* Data instruction holding the bytes of the text (the rest of the line,
\* without the whitespace around it, the whitespace inside it kept) and one
\* NUL byte after them, the only one, with the text's length plus one as its
\* length; a bare dataString emits the Data of the one NUL byte; and a text
\* that holds a NUL character ends from_str with an error.
C33_DataStringEmitsTextAndNul ==
  DataLine =>
    LET text == DataText(LastLine) IN
    /\ (\A k \in 1..Len(text) : text[k] # NulChar) =>
         /\ EmittedText(text)
         /\ LET data == a_last.res.v.program[Len(a_last.res.v.program)].data IN
            /\ data[Len(data)] = 0
            /\ \A k \in 1..(Len(data) - 1) : data[k] # 0
         /\ Len(Tokens(LastLine)) = 1 =>
              a_last.res.v.program[Len(a_last.res.v.program)] = Data(W(1), <<0>>)
    /\ (\E k \in 1..Len(text) : text[k] = NulChar) =>
         /\ a_last.res = Err("nul byte found in provided data")
         /\ a_result = a_last.res
    /\ a_input = AsmFunctionSource =>
         a_last.res.v.program[2] = Data(W(13), HelloWorld \o <<0>>)
\* The line "<tab> DataString <tab>a  b<tab>c<tab> ", after a nop: the text is
\* "a  b<tab>c".
C33_Witness ==
  /\ DataLine /\ a_last.line = 2 /\ a_last.res.ok
  /\ Len(LastLine) = 22
  /\ a_last.res.v.program = <<Nullary("Nop"), Data(W(7), <<97, 32, 32, 98, 9, 99, 0>>)>>

\* ---- C34
\* A stack pointer that lies in a memory of len bytes, a whole number of words
\* below its end.
WordAligned(sp, len) == sp[1] = 0 /\ sp[2] <= len /\ (len - sp[2]) % 4 = 0
\* The code holds no byte with the opcode of WriteStackPointer, so that no
\* step can decode one wherever the instruction pointer stands.
NoWriteStackPointer(code) == \A k \in 1..Len(code) : code[k] # 20

\* C34: the stack pointer starts at the memory size; a step() call that
\* decodes no WriteStackPointer, successful or not, leaves it in the memory
\* and a whole number of words below the memory's end when it was so before;
\* and so it is, in every state, on a Machine whose code holds no
\* WriteStackPointer.
C34_StackPointerStaysAligned ==
  /\ m_last.n = 0 => stack_pointer = W(Len(memory))
  /\ Len(memory) = native_ptr(m_new.memory_size)
  /\ (m_last.by \in StepCalls /\ m_last.instr.op # "WriteStackPointer"
      /\ WordAligned(m_pre.stack_pointer, Len(m_pre.memory)))
       => WordAligned(stack_pointer, Len(memory))
  /\ NoWriteStackPointer(program) => WordAligned(stack_pointer, Len(memory))
\* A PushRegister that failed on its register after lowering the stack
\* pointer from 4 to 0.
C34_Witness ==
  /\ m_last.by \in StepCalls /\ ~m_last.res.ok
  /\ m_last.instr.op = "PushRegister"
  /\ NoWriteStackPointer(program)
  /\ Len(memory) = 8 /\ stack_pointer = W(0) /\ m_pre.stack_pointer = W(4)

\* ---- C35
\* The instructions that store 2 or 4 bytes.
WideStoreOps == {"Store16", "Store32", "Write16", "Write32", "Push", "PushRegister", "Call"}

\* C35: a Store16, Store32, Write16, Write32, Push, PushRegister or Call that
\* fails has modified no byte of the memory.
C35_FailedStoreLeavesMemory ==
  (m_last.by \in StepCalls /\ ~m_last.res.ok /\ m_last.instr.op \in WideStoreOps)
    => memory = m_pre.memory

\* ---- C36
\* The builder calls that add an instruction, and the two that patch one.
AddOps ==
  {"add_instruction", "add_data", "add_copy_data", "add_dummy_copy_data",
   "add_dummy_jump"} \cup {JumpFns[fn][1] : fn \in DOMAIN JumpFns}
PatchOps == {"replace_dummy_address", "replace_dummy_copy_data"}

\* The address of instruction k (counted from 0) of p: the sizes before it.
AddressOf(p, k) == resolve(p, k).v.addr

\* A jump or call whose address has been written.
WrittenJump(i) == i.op \in PatchableJumps /\ i.ptr # VmPtrMAX

\* C36: a builder call removes and reorders nothing.  An add_* call that
\* succeeds appends one instruction and returns the count before it; a
\* replace_dummy_* call keeps the count and the size of every instruction and
\* changes at most the instruction it names; after any call every index that
\* held an instruction resolves to the address it resolved to before, and a
\* jump whose address was written still holds that address.
C36_LayoutIsStableUnderPatching ==
  LET n == Len(b_prev) IN
  b_last.op # "new" =>
    /\ Len(instructions) >= n
    /\ \A k \in 1..n :
         /\ size(instructions[k]) = size(b_prev[k])
         /\ AddressOf(instructions, k - 1) = AddressOf(b_prev, k - 1)
         /\ WrittenJump(b_prev[k]) => instructions[k] = b_prev[k]
    /\ (b_last.op \in AddOps /\ b_last.res.ok) =>
         /\ Len(instructions) = n + 1
         /\ SubSeq(instructions, 1, n) = b_prev
         /\ b_last.res.v = n
    /\ (b_last.op \in PatchOps /\ b_last.res.ok) =>
         /\ Len(instructions) = n
         /\ \A k \in 1..n : k # b_last.index + 1 => instructions[k] = b_prev[k]
    /\ ~b_last.res.ok => instructions = b_prev

\* A dummy jump is patched in a Program that holds a written jump and an
\* instruction after the patched one.
C36_Witness ==
  /\ b_last.op = "replace_dummy_address" /\ b_last.res.ok
  /\ b_last.index + 1 < Len(instructions)
  /\ instructions[b_last.index + 1].ptr # W(0)
  /\ \E k \in 1..Len(instructions) :
       k # b_last.index + 1 /\ WrittenJump(instructions[k])

\* ---- C37
\* The instructions encoded in an Executable, read one after the other from
\* its first byte up to its end or to the first bytes that decode as none.
RECURSIVE Encoded(_)
Encoded(code) ==
  IF code = <<>> \/ ~parse(code).ok THEN <<>>
  ELSE <<parse(code).v>>
       \o Encoded(SubSeq(code, LayoutBytes(code) + 1, Len(code)))

\* The instructions that set the instruction pointer.
ControlOps == PatchableJumps \cup {"Return"}

\* The Machine's Executable holds no Jump, Call, Return or conditional jump.
StraightLine == \A k \in DOMAIN Encoded(program) : Encoded(program)[k].op \notin ControlOps

\* C37: on an Executable without Jump, Call, Return and conditional jumps the
\* n-th step() call decodes the n-th encoded instruction, so no instruction is
\* stepped twice; a successful step leaves the instruction pointer above where
\* it found it; a step fails to decode exactly when the encoded instructions
\* are used up; and run() goes on after a step that returned true, returns Ok
\* at the Halt and the error at the step that failed.
C37_StraightLineRunTerminates ==
  LET enc == Encoded(program)
      n == m_last.n
  IN
  (StraightLine /\ m_last.by \in StepCalls /\ ~m_last.after_end) =>
    /\ n <= Len(enc) + 1
    /\ m_last.at = W(SumSizes(enc, n - 1))
    /\ (n <= Len(enc)) = (m_last.instr.op # "none")
    /\ n <= Len(enc) => m_last.instr = enc[n]
    /\ n = Len(enc) + 1 =>
         /\ m_last.res = Err("Failed parsing instruction")
         /\ instruction_pointer = m_last.at
    /\ m_last.res.ok => cmp(instruction_pointer, m_last.at) = "Greater"
    /\ m_last.by = "run" =>
         /\ run_active = (m_last.res.ok /\ m_last.instr.op # "Halt")
         /\ run_active => n <= Len(enc) /\ n < MaxSteps
         /\ (run_result = Ok("unit")) = (m_last.res.ok /\ m_last.instr.op = "Halt")
         /\ ~m_last.res.ok => run_result = m_last.res

\* A run() that stepped over every instruction of an Executable without a Halt
\* and ended at its end.
C37_Witness ==
  /\ StraightLine
  /\ m_last.by = "run" /\ ~m_last.after_end
  /\ m_last.n = Len(Encoded(program)) + 1 /\ m_last.n >= 3
  /\ m_last.at = W(Len(program))
  /\ ~run_active /\ run_result = Err("Failed parsing instruction")

\* ---- C38
\* The instruction count a label stands for: the instructions emitted before
\* its declaration.
LabelIndex(input, label) == EmittedBefore(input, DeclLine(input, label))

\* The row of JumpFns whose function emits the jump a command names.
JumpFn(cmd) ==
  CHOOSE fn \in DOMAIN JumpFns :
    \E j \in 1..Len(Mnemonics) : Mnemonics[j] = cmd /\ ParseTable[j][1] = JumpFns[fn][2]

\* The builder call that stands for line k of a source, made on the Program p
\* built for the lines before it: add_jump, add_call, ... with the label's
\* instruction index for a jump to a label, add_copy_data with it for a
\* copyCodeMemory, add_data with the text and a NUL for a dataString, and
\* add_instruction, with the instruction the line names (the one at the line's
\* place in asm), for every other mnemonic.
BuilderCall(p, input, k, asm) ==
  LET raw == input[k] IN
  IF IsJump(raw) THEN add_jump(p, JumpFn(Command(raw)), LabelIndex(input, Tokens(raw)[2]))
  ELSE IF IsReference(raw) THEN add_copy_data(p, LabelIndex(input, Tokens(raw)[2]))
  ELSE IF Command(raw) = DataCommand THEN add_data(p, as_bytes(DataText(raw)) \o <<0>>)
  ELSE add_instruction(p, asm[EmittedBefore(input, k) + 1])

\* The same for a reference to a label that no instruction stands at yet when
\* the line is reached: the placeholder is added, and patched with the label's
\* instruction index when the Program `full` has all its other instructions.
DummyCall(p, input, k) ==
  IF IsJump(input[k]) THEN add_dummy_jump(p, JumpFn(Command(input[k])))
  ELSE add_dummy_copy_data(p)
PatchCall(full, input, k) ==
  LET index == EmittedBefore(input, k)
      target == LabelIndex(input, Tokens(input[k])[2])
  IN  IF IsJump(input[k]) THEN replace_dummy_address(full, index, target)
      ELSE replace_dummy_copy_data(full, index, target)

\* Line k refers to a label whose instruction index is the line's own or a
\* later one.
RefersAhead(input, k) ==
  IsReference(input[k]) /\ LabelIndex(input, Tokens(input[k])[2]) >= EmittedBefore(input, k)

\* The Program from_str returned, up to the instruction of line k, is what the
\* call `r` makes of the Program up to the line before.
Extends(asm, input, k, r) ==
  /\ r.ok
  /\ r.p = SubSeq(asm, 1, EmittedBefore(input, k) + 1)
  /\ r.v = EmittedBefore(input, k)
  /\ compile(r.p) = compile(SubSeq(asm, 1, EmittedBefore(input, k) + 1))

\* C38 as stated: the Program from_str returns is, line by line, the one the
\* builder calls make: add_instruction, add_jump_* / add_call and add_copy_data
\* with the label's instruction index, add_data with the text and a NUL.
C38_Original ==
  (a_pc = "returned" /\ a_result.ok) =>
    \A k \in 1..Len(a_input) :
      Emits(a_input[k]) =>
        Extends(a_result.v, a_input, k,
                BuilderCall(SubSeq(a_result.v, 1, EmittedBefore(a_input, k)), a_input, k,
                            a_result.v))

\* C38 amended: the same, for every line but a reference to a label whose
\* instruction index is not below the line's own; there add_jump_*, add_call
\* and add_copy_data fail, and the Program from_str returns is the one made by
\* the add_dummy_* call in the line's place and the replace_dummy_* call with
\* the label's instruction index on the Program with its other instructions;
\* and the sources of examples/asm_loop.rs and examples/asm_hello_world.rs
\* compile to the bytes of the Programs examples/loop.rs and
\* examples/hello_world.rs build.
C38_AssemblerAndBuilderAgree ==
  (a_pc = "returned" /\ a_result.ok) =>
    /\ \A k \in 1..Len(a_input) :
         Emits(a_input[k]) =>
           LET asm == a_result.v
               before == SubSeq(asm, 1, EmittedBefore(a_input, k))
               dummy == DummyCall(before, a_input, k)
           IN  IF ~RefersAhead(a_input, k)
               THEN Extends(asm, a_input, k, BuilderCall(before, a_input, k, asm))
               ELSE /\ ~BuilderCall(before, a_input, k, asm).ok
                    /\ dummy.ok /\ dummy.v = EmittedBefore(a_input, k)
                    /\ PatchCall([asm EXCEPT ![dummy.v + 1] = dummy.p[dummy.v + 1]],
                                 a_input, k) = Done(asm, "unit")
    /\ a_input = AsmLoopSource => compile(a_result.v) = compile(ScenarioA)
    /\ a_input = AsmHelloWorldSource => compile(a_result.v) = compile(ScenarioB)

\* examples/asm_hello_world.rs is assembled: its copyCodeMemory is the one
\* add_copy_data makes for the Data at index 0.
C38_Witness ==
  /\ a_pc = "returned" /\ a_result.ok
  /\ a_input = AsmHelloWorldSource
  /\ Len(a_result.v) = 5
  /\ a_result.v[3] = CopyCodeMemory(W(5), W(13))
  /\ compile(a_result.v) = compile(ScenarioB)

\* ---- C39
\* A label no instruction follows: its instruction index is the number of
\* instructions the whole source emits.
Trailing(input, label) ==
  LabelIndex(input, label) = EmittedBefore(input, Len(input) + 1)

\* The lines that refer to a trailing label: with a jump or call, and with
\* copyCodeMemory.
TrailingJumps(input) ==
  {k \in 1..Len(input) : IsJump(input[k]) /\ Trailing(input, Tokens(input[k])[2])}
TrailingCopies(input) ==
  {k \in 1..Len(input) :
     IsReference(input[k]) /\ ~IsJump(input[k]) /\ Trailing(input, Tokens(input[k])[2])}

\* The copyCodeMemory lines that refer to a label at an instruction that is no
\* data.
CopiesOfNoData(input, p) ==
  {k \in 1..Len(input) :
     /\ IsReference(input[k]) /\ ~IsJump(input[k])
     /\ ~Trailing(input, Tokens(input[k])[2])
     /\ p[LabelIndex(input, Tokens(input[k])[2]) + 1].op # "Data"}

\* C39: once from_str has returned on a source whose labels referred to are
\* all declared and in which a jump, call or copyCodeMemory refers to a label
\* that no instruction follows, it has returned an error; when the lines are
\* all well formed the error comes after the last line is read, and is
\* "Invalid jump index" when a jump or call refers to such a label, and
\* "Invalid data index" when only copyCodeMemory does and every other
\* copyCodeMemory refers to data.  No jump of a Program from_str returns has
\* the address after the last instruction, or one beyond it, as its operand.
C39_TrailingLabelHasNoTarget ==
  a_pc = "returned" =>
    /\ (Referenced(a_input) \subseteq Declared(a_input)
        /\ TrailingJumps(a_input) \cup TrailingCopies(a_input) # {})
         => /\ ~a_result.ok
            /\ (\A k \in 1..Len(a_input) : ~Malformed(a_input[k])) /\ a_pos > Len(a_input)
                 => /\ TrailingJumps(a_input) # {} => a_result = Err("Invalid jump index")
                    /\ (TrailingJumps(a_input) = {}
                        /\ CopiesOfNoData(a_input, a_state.program) = {})
                         => a_result = Err("Invalid data index")
    /\ a_result.ok =>
         \A n \in 1..Len(a_result.v) :
           a_result.v[n].op \in PatchableJumps =>
             cmp(a_result.v[n].ptr, W(Len(compile(a_result.v)))) = "Less"

\* "nop", "jump a", "label a": the label is declared after the last
\* instruction, and the second loop fails on the jump.
C39_Witness ==
  /\ a_pc = "returned" /\ a_result = Err("Invalid jump index")
  /\ Len(a_input) = 3 /\ a_pos = 4
  /\ IsJump(a_input[2]) /\ IsDeclaration(a_input[3])
  /\ TrailingJumps(a_input) = {2}
  /\ a_state.program = <<Nullary("Nop"), WithPtr("Jump", VmPtrMAX)>>
====
